---- MODULE Spec2Model ----
(***************************************************************************)
(* Model of the capsaicin scan engine (internal/scanner), of its          *)
(* resilient transport (internal/transport), of the pure functions of      *)
(* internal/detection, of the JSON writers of internal/reporting, and of   *)
(* the order in which each goroutine locks, unlocks, calls and sends.      *)
(*                                                                         *)
(* Strings are sequences of one-character strings, so that TrimSuffix,     *)
(* TrimPrefix, HasSuffix and extractPath are computed as the code does.    *)
(***************************************************************************)
EXTENDS Integers, Sequences, FiniteSets, Bags, TLC

VARIABLES
    cfg,          \* config.Config + targets + wordlist of this run
    ctxDone,      \* ctx.Done() is closed
    mainPc,       \* position of RunContext itself
    calIdx,       \* next target to calibrate
    calCache,     \* CalibrationCache.signatures
    retErr,       \* error value RunContext returned
    taskChan, taskClosed,
    resultChan, resultClosed,
    newTaskChan, newTaskClosed,
    taskWg,       \* counter of the taskWg WaitGroup
    workerDone,   \* number of signals buffered in workerDone
    wk,           \* worker goroutines: locals and position
    prod,         \* seed producer goroutine
    cons,         \* recursion consumer goroutine
    closer,       \* the goroutine that waits on taskWg and closes tasks
    finisher,     \* the goroutine that waits for the workers and closes results/newTasks
    collector,    \* result collector goroutine
    results,      \* the collected []Result
    scannedDirs,  \* scannedDirs map, as a set of <<target, path>>
    stats,        \* Stats counters
    fanouts,      \* history: bag of <<target, path>> the consumer fanned out
    dupDrops,     \* history: number of new tasks the consumer dropped as duplicates
    httpLog,      \* history: the scan requests issued by the workers
    calDrops,     \* history: number of responses the calibration filter dropped
    panicked,     \* a goroutine sent on a closed channel or closed a channel twice
    tcfg,         \* transport: retryAttempts, rate limit, hosts and callers of this run
    now,          \* transport: time.Now(), in seconds
    failureCounts,\* CircuitBreaker.failureCounts
    lastFailure,  \* CircuitBreaker.lastFailure
    limiters,     \* Client.limiters: host -> the limiter created for it (limiters are numbered)
    reqCtxDone,   \* transport: the context of the requests is cancelled
    calls,        \* transport: the goroutines calling DoContext
    streak,       \* history: per host, failures recorded in a row and time of the last one
    detIn,        \* detection: the arguments of the call of a detection function
    detOut,       \* detection: what the call returned
    reportIn,     \* reporting: the results of the scan, its targets and its run id
    clock,        \* reporting: time.Now(), in half seconds
    files,        \* reporting: the files written so far, each with the call that wrote it
    lockSt        \* locking: per goroutine, its position and the locks it holds

engineVars == <<cfg, ctxDone, mainPc, calIdx, calCache, retErr, taskChan, taskClosed,
                resultChan, resultClosed, newTaskChan, newTaskClosed, taskWg,
                workerDone, wk, prod, cons, closer, finisher, collector, results,
                scannedDirs, stats, fanouts, dupDrops, httpLog, calDrops, panicked>>

transportVars == <<tcfg, now, failureCounts, lastFailure, limiters, reqCtxDone, calls,
                   streak>>

detectionVars == <<detIn, detOut>>

reportingVars == <<reportIn, clock, files>>

lockVars == <<lockSt>>

vars == <<engineVars, transportVars, detectionVars, reportingVars, lockVars>>

----------------------------------------------------------------------------
(* strings *)

Slash == <<"/">>

HasSuffix(s, suf) ==
    /\ Len(s) >= Len(suf)
    /\ SubSeq(s, Len(s) - Len(suf) + 1, Len(s)) = suf

HasPrefix(s, pre) ==
    /\ Len(s) >= Len(pre)
    /\ SubSeq(s, 1, Len(pre)) = pre

TrimSuffix(s, suf) ==
    IF HasSuffix(s, suf) THEN SubSeq(s, 1, Len(s) - Len(suf)) ELSE s

TrimPrefix(s, pre) ==
    IF HasPrefix(s, pre) THEN SubSeq(s, Len(pre) + 1, Len(s)) ELSE s

\* positions of "/" in s, and the position of the n-th one (0 when absent)
SlashPositions(s) == {i \in 1..Len(s) : s[i] = "/"}

NthSlash(s, n) ==
    LET ps == SlashPositions(s)
        cands == {i \in ps : Cardinality({j \in ps : j <= i}) = n}
    IN IF cands = {} THEN 0 ELSE CHOOSE i \in cands : TRUE

\* strings.SplitN(url, "/", 4): a fourth part exists iff url has three slashes
extractPath(url) ==
    LET third == NthSlash(url, 3)
    IN IF third > 0 THEN Slash \o SubSeq(url, third + 1, Len(url)) ELSE Slash

\* the effective URL of a task
TaskURL(task) ==
    TrimSuffix(task.TargetURL, Slash) \o Slash \o TrimPrefix(task.Path, Slash)

----------------------------------------------------------------------------
(* classification *)

\* isInteresting with the 4xx range let through
isInteresting_Any4xx(status) == status >= 200 /\ status < 500

isInteresting(status) ==
    \/ status >= 200 /\ status < 400
    \/ status = 401
    \/ status = 403

isDirectory(result) ==
    \/ result.StatusCode \in {301, 302, 403}
    \/ HasSuffix(result.URL, Slash)

\* isBypassSuccess with 403 taken for a success
isBypassSuccess_Includes403(status) == status \in {200, 302, 301, 403}

isBypassSuccess(status) == status \in {200, 302, 301}

\* IsFuzzSuccess with 204 left out
IsFuzzSuccess_Without204(status) == status \in {200, 201}

IsFuzzSuccess(status) == status \in {200, 201, 204}

AbsInt(n) == IF n < 0 THEN -n ELSE n

\* MatchesSignature with the 5% bound included
MatchesSignature_Inclusive(statusCode, size, signatures) ==
    \E i \in 1..Len(signatures) :
      /\ statusCode = signatures[i].StatusCode
      /\ signatures[i].Size # 0
      /\ 20 * AbsInt(size - signatures[i].Size) <= signatures[i].Size

\* float64(abs(size-sig.Size)) / float64(sig.Size) < 0.05, for a sig.Size that is not
\* zero: sizes are body lengths, so sig.Size > 0 and the quotient is below 1/20 exactly
\* when 20 * abs(size-sig.Size) < sig.Size (a quotient of exactly 1/20 rounds to the
\* double that the constant 0.05 denotes)
RECURSIVE MatchesSignature(_, _, _)
MatchesSignature(statusCode, size, signatures) ==
    IF signatures = <<>> THEN FALSE
    ELSE LET sig == Head(signatures)
         IN IF /\ statusCode = sig.StatusCode
               /\ sig.Size # 0
               /\ 20 * AbsInt(size - sig.Size) < sig.Size
            THEN TRUE
            ELSE MatchesSignature(statusCode, size, Tail(signatures))

alternativeMethods == <<"POST", "PUT", "DELETE", "PATCH">>

strategyNames == <<"headers", "path-normalize", "path-dotslash", "path-double-slash",
                   "path-trailing-slash", "path-semicolon", "path-semicolon-slash",
                   "path-null-byte", "path-hash", "url-encode", "case-upper",
                   "method-override">>

----------------------------------------------------------------------------
(* the runs explored: configuration, targets, wordlist and the server's     *)
(* behaviour                                                                *)

T1 == <<"h", "t", "t", "p", ":", "/", "/", "h">>
T2 == <<"h", "t", "t", "p", ":", "/", "/", "g">>

\* server "any": every reply is possible on every request;
\* server "dirs": every path answers 301 (directory-like), as long as it is reachable;
\* server "plain": paths answer 200, or 404 with the baseline body, or fail;
\* server "xff": the scanned path answers 403 unless X-Forwarded-For: 127.0.0.1 is
\* sent (then 200), every other path answers 404 with an empty body
Scenarios ==
    { [Targets |-> <<T1>>, Words |-> <<<<"a">>>>, Extensions |-> <<>>,
       Threads |-> 1, MaxDepth |-> 0, SafeMode |-> FALSE, server |-> "any"],
      [Targets |-> <<T1>>, Words |-> <<<<"a">>>>, Extensions |-> <<>>,
       Threads |-> 1, MaxDepth |-> 0, SafeMode |-> TRUE, server |-> "any"],
      [Targets |-> <<T1>>, Words |-> <<<<"a">>, <<"a">>, <<"a">>, <<"a">>>>, Extensions |-> <<>>,
       Threads |-> 1, MaxDepth |-> 2, SafeMode |-> FALSE, server |-> "dirs"],
      [Targets |-> <<T1, T2>>, Words |-> <<<<"a">>>>, Extensions |-> << <<".", "x">> >>,
       Threads |-> 2, MaxDepth |-> 1, SafeMode |-> FALSE, server |-> "plain"],
      [Targets |-> <<T1>>, Words |-> <<<<"a">>, <<"a">>>>, Extensions |-> <<>>,
       Threads |-> 2, MaxDepth |-> 2, SafeMode |-> FALSE, server |-> "dirs"],
      [Targets |-> <<T1>>, Words |-> <<<<"a">>>>, Extensions |-> <<>>,
       Threads |-> 1, MaxDepth |-> 0, SafeMode |-> FALSE, server |-> "xff"],
      [Targets |-> <<T1>>, Words |-> <<<<"a">>>>, Extensions |-> << <<".", "x">> >>,
       Threads |-> 1, MaxDepth |-> 2, SafeMode |-> FALSE, server |-> "dirs"] }

ErrReply == [err |-> TRUE, status |-> 0, size |-> 0]

Reply(status, size) == [err |-> FALSE, status |-> status, size |-> size]

Statuses == {200, 201, 204, 301, 401, 403, 404, 405, 500}

Sizes == {0, 100}

AnyReply == {ErrReply} \cup {Reply(st, sz) : st \in Statuses, sz \in Sizes}

\* what the server may answer to a scan request (after the transport's retries)
ServerReplies(server) ==
    CASE server = "any" -> AnyReply
      [] server = "dirs" -> {Reply(301, 0)}
      [] server = "plain" -> {ErrReply, Reply(200, 100), Reply(404, 100)}
      [] server = "xff" -> {Reply(403, 100)}

\* a request under a cancelled context fails: DoContext returns ctx.Err()
ScanReplies == IF ctxDone THEN {ErrReply} ELSE ServerReplies(cfg.server)

\* what the server may answer to the request of bypass strategy name: only the
\* "headers" strategy sends X-Forwarded-For
BypassReplies(name) ==
    IF ~ctxDone /\ cfg.server = "xff" /\ name = "headers" THEN {Reply(200, 100)}
    ELSE ScanReplies

\* what the server may answer to one calibration probe
CalReplies(server) ==
    CASE server = "any" -> {ErrReply, Reply(200, 100)}
      [] server = "dirs" -> {Reply(404, 100)}
      [] server = "plain" -> {Reply(404, 100)}
      [] server = "xff" -> {Reply(404, 0)}

Signature(reply) == [StatusCode |-> reply.status, Size |-> reply.size]

Capacity == cfg.Threads * 2

Workers == 1..cfg.Threads

\* the seed tasks in the order the producer sends them
RECURSIVE ExtTasks(_, _, _, _)
ExtTasks(target, base, exts, depth) ==
    IF exts = <<>> THEN <<>>
    ELSE <<[TargetURL |-> target, Path |-> base \o Head(exts), Depth |-> depth]>>
         \o ExtTasks(target, base, Tail(exts), depth)

RECURSIVE WordTasks(_, _, _, _, _)
WordTasks(target, prefix, words, exts, depth) ==
    IF words = <<>> THEN <<>>
    ELSE <<[TargetURL |-> target, Path |-> prefix \o Head(words), Depth |-> depth]>>
         \o ExtTasks(target, prefix \o Head(words), exts, depth)
         \o WordTasks(target, prefix, Tail(words), exts, depth)

RECURSIVE SeedTasks(_)
SeedTasks(targets) ==
    IF targets = <<>> THEN <<>>
    ELSE WordTasks(Head(targets), <<>>, cfg.Words, cfg.Extensions, 1)
         \o SeedTasks(Tail(targets))

\* FanOutTasks without the tasks for the extensions
FanOutTasks_WordsOnly(newTask) ==
    WordTasks(newTask.TargetURL, TrimSuffix(newTask.Path, Slash) \o Slash,
              cfg.Words, <<>>, newTask.Depth)

\* the tasks the recursion consumer generates for one new task
FanOutTasks(newTask) ==
    WordTasks(newTask.TargetURL, TrimSuffix(newTask.Path, Slash) \o Slash,
              cfg.Words, cfg.Extensions, newTask.Depth)

initialTaskCount == Len(cfg.Targets) * Len(cfg.Words) * (1 + Len(cfg.Extensions))

NoTask == [TargetURL |-> <<>>, Path |-> <<>>, Depth |-> 0]

NoResult == [URL |-> <<>>, StatusCode |-> 0, Size |-> 0, Method |-> "", Critical |-> FALSE]

\* tried and extra are history: the alternate methods or bypass strategies tried for
\* the task held, each with whether its response had a success status, and the
\* number of additional Results sent for the task
WorkerInit == [pc |-> "recv", task |-> NoTask, result |-> NoResult, out |-> NoResult,
               idx |-> 0, consecutiveErrors |-> 0, tried |-> <<>>, extra |-> 0]

\* NewStats with the initial total not stored
NewStats_IgnoresInitialTotal(initialTotal) == [Total |-> 0, Processed |-> 0, Found |-> 0, Errors |-> 0]

NewStats(initialTotal) == [Total |-> initialTotal, Processed |-> 0, Found |-> 0, Errors |-> 0]

\* the state of RunContext before it starts, for a run drawn from scenarios
EngineInit(scenarios) ==
    /\ cfg \in scenarios
    /\ ctxDone = FALSE
    /\ mainPc = "calibrate"
    /\ calIdx = 1
    /\ calCache = <<>>
    /\ retErr = "nil"
    /\ taskChan = <<>> /\ taskClosed = FALSE
    /\ resultChan = <<>> /\ resultClosed = FALSE
    /\ newTaskChan = <<>> /\ newTaskClosed = FALSE
    /\ taskWg = 0
    /\ workerDone = 0
    /\ wk = <<>>
    /\ prod = [pc |-> "off", idx |-> 1]
    /\ cons = [pc |-> "off", newTask |-> NoTask, idx |-> 0]
    /\ closer = "off"
    /\ finisher = [pc |-> "off", got |-> 0]
    /\ collector = "off"
    /\ results = <<>>
    /\ scannedDirs = {}
    /\ stats = NewStats(initialTaskCount)
    /\ fanouts = EmptyBag
    /\ dupDrops = 0
    /\ httpLog = {}
    /\ calDrops = 0
    /\ panicked = FALSE

----------------------------------------------------------------------------
(* RunContext: calibration, start of the goroutines, return *)

\* workers inside rng.Intn on the generator the engine hands to every worker
InsideIntn == {w \in DOMAIN wk : wk[w].pc = "agent"}

\* a goroutine died inside the shared generator: the panic ends the process, and no
\* goroutine of the scan takes a step after it
Crashed == \E w \in DOMAIN wk : wk[w].pc = "crashed"

\* the context is cancelled by the caller (signal handler in main)
Cancel ==
    /\ ~ctxDone
    /\ mainPc # "returned"
    /\ ctxDone' = TRUE
    /\ UNCHANGED <<transportVars, detectionVars, reportingVars, lockVars, cfg, mainPc, calIdx, calCache, retErr, taskChan, taskClosed,
                   resultChan, resultClosed, newTaskChan, newTaskClosed, taskWg,
                   workerDone, wk, prod, cons, closer, finisher, collector, results,
                   scannedDirs, stats, fanouts, dupDrops, httpLog, calDrops, panicked>>

\* the signatures of the probes that did not fail, in probe order
RECURSIVE ProbeSignatures(_)
ProbeSignatures(replies) ==
    IF replies = <<>> THEN <<>>
    ELSE (IF Head(replies).err THEN <<>> ELSE <<Signature(Head(replies))>>)
         \o ProbeSignatures(Tail(replies))

\* cache lookup: the signatures stored for target (nil when absent)
CacheGet(cache, target) ==
    LET hits == {i \in 1..Len(cache) : cache[i].target = target}
    IN IF hits = {} THEN <<>> ELSE cache[CHOOSE i \in hits : TRUE].sigs

CacheHas(cache, target) == \E i \in 1..Len(cache) : cache[i].target = target

\* PerformCalibration that stores nothing when every probe failed
PerformCalibration_SkipsEmpty(cache, target, replies) ==
    IF CacheHas(cache, target) \/ ProbeSignatures(replies) = <<>> THEN cache
    ELSE Append(cache, [target |-> target, sigs |-> ProbeSignatures(replies)])

\* PerformCalibration: the cache it leaves, given the replies to the three probes
PerformCalibration(cache, target, replies) ==
    IF CacheHas(cache, target) THEN cache
    ELSE Append(cache, [target |-> target, sigs |-> ProbeSignatures(replies)])

\* one iteration of the calibration loop of RunContext
CalibrateTarget ==
    /\ ~Crashed
    /\ mainPc = "calibrate"
    /\ calIdx <= Len(cfg.Targets)
    /\ IF ctxDone
       THEN /\ mainPc' = "returned"
            /\ retErr' = "ctx"
            /\ UNCHANGED <<calIdx, calCache>>
       ELSE /\ \E replies \in [1..3 -> CalReplies(cfg.server)] :
                 calCache' = PerformCalibration(calCache, cfg.Targets[calIdx], replies)
            /\ calIdx' = calIdx + 1
            /\ UNCHANGED <<mainPc, retErr>>
    /\ UNCHANGED <<transportVars, detectionVars, reportingVars, lockVars, cfg, ctxDone, taskChan, taskClosed, resultChan, resultClosed,
                   newTaskChan, newTaskClosed, taskWg, workerDone, wk, prod, cons,
                   closer, finisher, collector, results, scannedDirs, stats,
                   fanouts, dupDrops, httpLog, calDrops, panicked>>

\* RunContext creates the channels, starts every goroutine and adds the seed
\* tasks to taskWg
StartScan ==
    /\ ~Crashed
    /\ mainPc = "calibrate"
    /\ calIdx > Len(cfg.Targets)
    /\ mainPc' = "wait"
    /\ collector' = "run"
    /\ cons' = [cons EXCEPT !.pc = IF cfg.MaxDepth > 0 THEN "recv" ELSE "off"]
    /\ wk' = [w \in Workers |-> WorkerInit]
    /\ taskWg' = taskWg + initialTaskCount
    /\ prod' = [pc |-> IF initialTaskCount = 0 THEN "exited" ELSE "send", idx |-> 1]
    /\ closer' = "wait"
    /\ finisher' = [pc |-> "wait", got |-> 0]
    /\ UNCHANGED <<transportVars, detectionVars, reportingVars, lockVars, cfg, ctxDone, calIdx, calCache, retErr, taskChan, taskClosed,
                   resultChan, resultClosed, newTaskChan, newTaskClosed, workerDone,
                   stats, results, scannedDirs, fanouts, dupDrops, httpLog, calDrops, panicked>>

\* wg.Wait() of RunContext: the collector and the recursion consumer have exited
Return ==
    /\ ~Crashed
    /\ mainPc = "wait"
    /\ collector = "exited"
    /\ cons.pc \in {"off", "exited"}
    /\ mainPc' = "returned"
    /\ retErr' = "nil"
    /\ UNCHANGED <<transportVars, detectionVars, reportingVars, lockVars, cfg, ctxDone, calIdx, calCache, taskChan, taskClosed,
                   resultChan, resultClosed, newTaskChan, newTaskClosed, taskWg,
                   workerDone, wk, prod, cons, closer, finisher, collector, results,
                   scannedDirs, stats, fanouts, dupDrops, httpLog, calDrops, panicked>>

----------------------------------------------------------------------------
(* the seed producer, the two closing goroutines and the result collector *)

\* one select of the seed producer: send the next seed task, or give up on ctx.Done()
ProducerSend ==
    /\ ~Crashed
    /\ prod.pc = "send"
    /\ \/ /\ Len(taskChan) < Capacity \/ taskClosed
          /\ taskChan' = IF taskClosed THEN taskChan
                         ELSE Append(taskChan, SeedTasks(cfg.Targets)[prod.idx])
          /\ panicked' = (panicked \/ taskClosed)
          /\ prod' = [pc |-> IF prod.idx >= initialTaskCount THEN "exited" ELSE "send",
                      idx |-> prod.idx + 1]
       \/ /\ ctxDone
          /\ prod' = [prod EXCEPT !.pc = "exited"]
          /\ UNCHANGED <<taskChan, panicked>>
    /\ UNCHANGED <<transportVars, detectionVars, reportingVars, lockVars, cfg, ctxDone, mainPc, calIdx, calCache, retErr, taskClosed,
                   resultChan, resultClosed, newTaskChan, newTaskClosed, taskWg,
                   workerDone, wk, cons, closer, finisher, collector, results,
                   scannedDirs, stats, fanouts, dupDrops, httpLog, calDrops>>

\* CloserWait returning whatever the counter is
CloserWait_WithoutWait ==
    /\ ~Crashed
    /\ closer = "wait"
    /\ closer' = "close"
    /\ UNCHANGED <<transportVars, detectionVars, reportingVars, lockVars, cfg, ctxDone, mainPc, calIdx, calCache, retErr, taskChan, taskClosed,
                   resultChan, resultClosed, newTaskChan, newTaskClosed, taskWg,
                   workerDone, wk, prod, cons, finisher, collector, results,
                   scannedDirs, stats, fanouts, dupDrops, httpLog, calDrops, panicked>>

\* taskWg.Wait() returns
CloserWait ==
    /\ ~Crashed
    /\ closer = "wait"
    /\ taskWg = 0
    /\ closer' = "close"
    /\ UNCHANGED <<transportVars, detectionVars, reportingVars, lockVars, cfg, ctxDone, mainPc, calIdx, calCache, retErr, taskChan, taskClosed,
                   resultChan, resultClosed, newTaskChan, newTaskClosed, taskWg,
                   workerDone, wk, prod, cons, finisher, collector, results,
                   scannedDirs, stats, fanouts, dupDrops, httpLog, calDrops, panicked>>

\* close(taskChan)
CloserClose ==
    /\ ~Crashed
    /\ closer = "close"
    /\ taskClosed' = TRUE
    /\ panicked' = (panicked \/ taskClosed)
    /\ closer' = "exited"
    /\ UNCHANGED <<transportVars, detectionVars, reportingVars, lockVars, cfg, ctxDone, mainPc, calIdx, calCache, retErr, taskChan,
                   resultChan, resultClosed, newTaskChan, newTaskClosed, taskWg,
                   workerDone, wk, prod, cons, finisher, collector, results,
                   scannedDirs, stats, fanouts, dupDrops, httpLog, calDrops>>

\* FinisherRecv going on to close the channels after the first signal
FinisherRecv_AfterFirstSignal ==
    /\ ~Crashed
    /\ finisher.pc = "wait"
    /\ workerDone > 0
    /\ workerDone' = workerDone - 1
    /\ finisher' = [pc |-> "closeResults", got |-> finisher.got + 1]
    /\ UNCHANGED <<transportVars, detectionVars, reportingVars, lockVars, cfg, ctxDone, mainPc, calIdx, calCache, retErr, taskChan, taskClosed,
                   resultChan, resultClosed, newTaskChan, newTaskClosed, taskWg,
                   wk, prod, cons, closer, collector, results,
                   scannedDirs, stats, fanouts, dupDrops, httpLog, calDrops, panicked>>

\* <-workerDone, once per worker
FinisherRecv ==
    /\ ~Crashed
    /\ finisher.pc = "wait"
    /\ workerDone > 0
    /\ workerDone' = workerDone - 1
    /\ finisher' = [pc |-> IF finisher.got + 1 >= cfg.Threads THEN "closeResults" ELSE "wait",
                    got |-> finisher.got + 1]
    /\ UNCHANGED <<transportVars, detectionVars, reportingVars, lockVars, cfg, ctxDone, mainPc, calIdx, calCache, retErr, taskChan, taskClosed,
                   resultChan, resultClosed, newTaskChan, newTaskClosed, taskWg,
                   wk, prod, cons, closer, collector, results,
                   scannedDirs, stats, fanouts, dupDrops, httpLog, calDrops, panicked>>

\* close(resultChan)
FinisherCloseResults ==
    /\ ~Crashed
    /\ finisher.pc = "closeResults"
    /\ resultClosed' = TRUE
    /\ panicked' = (panicked \/ resultClosed)
    /\ finisher' = [finisher EXCEPT !.pc = IF cfg.MaxDepth > 0 THEN "closeNewTasks" ELSE "exited"]
    /\ UNCHANGED <<transportVars, detectionVars, reportingVars, lockVars, cfg, ctxDone, mainPc, calIdx, calCache, retErr, taskChan, taskClosed,
                   resultChan, newTaskChan, newTaskClosed, taskWg,
                   workerDone, wk, prod, cons, closer, collector, results,
                   scannedDirs, stats, fanouts, dupDrops, httpLog, calDrops>>

\* close(newTaskChan)
FinisherCloseNewTasks ==
    /\ ~Crashed
    /\ finisher.pc = "closeNewTasks"
    /\ newTaskClosed' = TRUE
    /\ panicked' = (panicked \/ newTaskClosed)
    /\ finisher' = [finisher EXCEPT !.pc = "exited"]
    /\ UNCHANGED <<transportVars, detectionVars, reportingVars, lockVars, cfg, ctxDone, mainPc, calIdx, calCache, retErr, taskChan, taskClosed,
                   resultChan, resultClosed, newTaskChan, taskWg,
                   workerDone, wk, prod, cons, closer, collector, results,
                   scannedDirs, stats, fanouts, dupDrops, httpLog, calDrops>>

\* the collector keeping only the Result it received last
CollectorRecv_KeepsLast ==
    /\ ~Crashed
    /\ collector = "run"
    /\ resultChan # <<>>
    /\ results' = <<Head(resultChan)>>
    /\ resultChan' = Tail(resultChan)
    /\ UNCHANGED <<transportVars, detectionVars, reportingVars, lockVars, cfg, ctxDone, mainPc, calIdx, calCache, retErr, taskChan, taskClosed,
                   resultClosed, newTaskChan, newTaskClosed, taskWg,
                   workerDone, wk, prod, cons, closer, finisher, collector,
                   scannedDirs, stats, fanouts, dupDrops, httpLog, calDrops, panicked>>

\* one iteration of `for result := range resultChan`
CollectorRecv ==
    /\ ~Crashed
    /\ collector = "run"
    /\ resultChan # <<>>
    /\ results' = Append(results, Head(resultChan))
    /\ resultChan' = Tail(resultChan)
    /\ UNCHANGED <<transportVars, detectionVars, reportingVars, lockVars, cfg, ctxDone, mainPc, calIdx, calCache, retErr, taskChan, taskClosed,
                   resultClosed, newTaskChan, newTaskClosed, taskWg,
                   workerDone, wk, prod, cons, closer, finisher, collector,
                   scannedDirs, stats, fanouts, dupDrops, httpLog, calDrops, panicked>>

\* the range loop ends: resultChan is closed and drained
CollectorExit ==
    /\ ~Crashed
    /\ collector = "run"
    /\ resultChan = <<>>
    /\ resultClosed
    /\ collector' = "exited"
    /\ UNCHANGED <<transportVars, detectionVars, reportingVars, lockVars, cfg, ctxDone, mainPc, calIdx, calCache, retErr, taskChan, taskClosed,
                   resultChan, resultClosed, newTaskChan, newTaskClosed, taskWg,
                   workerDone, wk, prod, cons, closer, finisher, results,
                   scannedDirs, stats, fanouts, dupDrops, httpLog, calDrops, panicked>>

----------------------------------------------------------------------------
(* worker *)

\* what no worker step changes
workerFrame == <<transportVars, detectionVars, reportingVars, lockVars, cfg, ctxDone, mainPc, calIdx, calCache, retErr, taskClosed,
                 resultClosed, newTaskClosed, prod, cons, closer, finisher,
                 collector, results, scannedDirs, fanouts, dupDrops>>

\* a scan request as recorded in httpLog: method, the URL scanned and, for a
\* bypass request, the strategy that built it
Request(method, url, strategy) == [method |-> method, url |-> url, strategy |-> strategy]

\* the HTTP method of a bypass strategy's request
StrategyMethod(name) == IF name = "method-override" THEN "POST" ELSE "GET"

\* the Result makeRequest builds from a response
MakeResult(url, method, reply) ==
    [URL |-> url, StatusCode |-> reply.status, Size |-> reply.size,
     Method |-> method, Critical |-> FALSE]

\* `for task := range tasks`: receive the next task, or leave the loop and signal done
WorkerRecv(w) ==
    /\ ~Crashed
    /\ wk[w].pc = "recv"
    /\ \/ /\ taskChan # <<>>
          /\ wk' = [wk EXCEPT ![w].pc = "check", ![w].task = Head(taskChan)]
          /\ taskChan' = Tail(taskChan)
          /\ UNCHANGED workerDone
       \/ /\ taskChan = <<>>
          /\ taskClosed
          /\ wk' = [wk EXCEPT ![w].pc = "exited"]
          /\ workerDone' = workerDone + 1
          /\ UNCHANGED taskChan
    /\ UNCHANGED <<workerFrame, resultChan, newTaskChan, taskWg, stats, httpLog, calDrops, panicked>>

\* the loop body without the cancellation check
WorkerCheck_IgnoresCancellation(w) ==
    /\ ~Crashed
    /\ wk[w].pc = "check"
    /\ wk' = [wk EXCEPT ![w].pc = "agent"]
    /\ UNCHANGED taskWg
    /\ UNCHANGED <<workerFrame, taskChan, resultChan, newTaskChan, workerDone, stats,
                   httpLog, calDrops, panicked>>

\* the cancellation check at the top of the loop body
WorkerCheck(w) ==
    /\ ~Crashed
    /\ wk[w].pc = "check"
    /\ IF ctxDone
       THEN /\ taskWg' = taskWg - 1
            /\ wk' = [wk EXCEPT ![w].pc = "recv", ![w].task = NoTask]
       ELSE /\ wk' = [wk EXCEPT ![w].pc = "agent"]
            /\ UNCHANGED taskWg
    /\ UNCHANGED <<workerFrame, taskChan, resultChan, newTaskChan, workerDone, stats,
                   httpLog, calDrops, panicked>>

\* getRandomUserAgent(rng) returns.  The worker takes no lock around the call; when
\* another worker is inside rng.Intn on the same generator the two calls race on
\* the generator's state: the call returns some index of the pool, or the
\* generator's feed/tap index leaves its array and the goroutine panics.  The
\* user agent drawn has no effect on anything else the scan does.
WorkerUserAgent(w) ==
    /\ ~Crashed
    /\ wk[w].pc = "agent"
    /\ \/ wk' = [wk EXCEPT ![w].pc = "request"]
       \/ /\ InsideIntn # {w}
          /\ wk' = [wk EXCEPT ![w].pc = "crashed"]
    /\ UNCHANGED <<workerFrame, taskChan, resultChan, newTaskChan, taskWg, workerDone, stats,
                   httpLog, calDrops, panicked>>

\* the consecutive-error counter after one more error (the cooldown sleep resets it)
NextConsecutiveErrors(n) == IF n + 1 >= 5 THEN 0 ELSE n + 1

\* AfterResponse with the calibration drop continuing without taskWg.Done()
AfterResponse_DropWithoutDone(result, signatures) ==
    IF MatchesSignature(result.StatusCode, result.Size, signatures) THEN "recv"
    ELSE IF result.StatusCode = 405 /\ ~cfg.SafeMode THEN "fuzz"
    ELSE "classify"

\* where the worker goes after a primary response that is not an error
AfterResponse(result, signatures) ==
    IF MatchesSignature(result.StatusCode, result.Size, signatures) THEN "done"
    ELSE IF result.StatusCode = 405 /\ ~cfg.SafeMode THEN "fuzz"
    ELSE "classify"

\* WorkerRequest with a failed request left out of processed
WorkerRequest_ErrorNotProcessed(w) ==
    /\ ~Crashed
    /\ wk[w].pc = "request"
    /\ \E reply \in ScanReplies :
         LET result == MakeResult(TaskURL(wk[w].task), "GET", reply)
         IN IF reply.err
            THEN /\ stats' = [stats EXCEPT !.Errors = @ + 1]
                 /\ wk' = [wk EXCEPT ![w].pc = "done",
                                     ![w].consecutiveErrors = NextConsecutiveErrors(@)]
                 /\ UNCHANGED calDrops
            ELSE /\ stats' = [stats EXCEPT !.Processed = @ + 1]
                 /\ calDrops' = IF MatchesSignature(result.StatusCode, result.Size,
                                                   CacheGet(calCache, wk[w].task.TargetURL))
                                THEN calDrops + 1 ELSE calDrops
                 /\ wk' = [wk EXCEPT
                             ![w].pc = AfterResponse(result, CacheGet(calCache, wk[w].task.TargetURL)),
                             ![w].result = result,
                             ![w].idx = 1,
                             ![w].consecutiveErrors = 0]
    /\ httpLog' = httpLog \cup {Request("GET", TaskURL(wk[w].task), "")}
    /\ UNCHANGED <<workerFrame, taskChan, resultChan, newTaskChan, taskWg, workerDone, panicked>>

\* the primary GET, the processed/errors counters and the calibration filter
WorkerRequest(w) ==
    /\ ~Crashed
    /\ wk[w].pc = "request"
    /\ \E reply \in ScanReplies :
         LET result == MakeResult(TaskURL(wk[w].task), "GET", reply)
         IN IF reply.err
            THEN /\ stats' = [stats EXCEPT !.Processed = @ + 1, !.Errors = @ + 1]
                 /\ wk' = [wk EXCEPT ![w].pc = "done",
                                     ![w].consecutiveErrors = NextConsecutiveErrors(@)]
                 /\ UNCHANGED calDrops
            ELSE /\ stats' = [stats EXCEPT !.Processed = @ + 1]
                 /\ calDrops' = IF MatchesSignature(result.StatusCode, result.Size,
                                                   CacheGet(calCache, wk[w].task.TargetURL))
                                THEN calDrops + 1 ELSE calDrops
                 /\ wk' = [wk EXCEPT
                             ![w].pc = AfterResponse(result, CacheGet(calCache, wk[w].task.TargetURL)),
                             ![w].result = result,
                             ![w].idx = 1,
                             ![w].consecutiveErrors = 0]
    /\ httpLog' = httpLog \cup {Request("GET", TaskURL(wk[w].task), "")}
    /\ UNCHANGED <<workerFrame, taskChan, resultChan, newTaskChan, taskWg, workerDone, panicked>>

\* one iteration of the alternative-method loop on a 405
WorkerFuzz(w) ==
    /\ ~Crashed
    /\ wk[w].pc = "fuzz"
    /\ IF ctxDone
       THEN /\ wk' = [wk EXCEPT ![w].pc = "classify"]
            /\ UNCHANGED <<stats, httpLog>>
       ELSE /\ \E reply \in ScanReplies :
                 LET method == alternativeMethods[wk[w].idx]
                     methodResult == [MakeResult(wk[w].result.URL, method, reply)
                                        EXCEPT !.Critical = TRUE]
                     attempt == [name |-> method,
                                 ok |-> ~reply.err /\ reply.status \in {200, 201, 204}]
                 IN IF ~reply.err /\ IsFuzzSuccess(reply.status)
                    THEN /\ wk' = [wk EXCEPT ![w].pc = "fuzzSend", ![w].out = methodResult,
                                            ![w].tried = Append(@, attempt)]
                         /\ stats' = [stats EXCEPT !.Found = @ + 1]
                    ELSE /\ wk' = [wk EXCEPT
                                     ![w].pc = IF wk[w].idx >= Len(alternativeMethods)
                                               THEN "classify" ELSE "fuzz",
                                     ![w].idx = @ + 1,
                                     ![w].tried = Append(@, attempt)]
                         /\ UNCHANGED stats
            /\ httpLog' = httpLog \cup {Request(alternativeMethods[wk[w].idx],
                                                   wk[w].result.URL, "")}
    /\ UNCHANGED <<workerFrame, taskChan, resultChan, newTaskChan, taskWg, workerDone,
                   calDrops, panicked>>

\* results <- *methodResult; break
WorkerFuzzSend(w) ==
    /\ ~Crashed
    /\ wk[w].pc = "fuzzSend"
    /\ Len(resultChan) < Capacity \/ resultClosed
    /\ resultChan' = IF resultClosed THEN resultChan ELSE Append(resultChan, wk[w].out)
    /\ panicked' = (panicked \/ resultClosed)
    /\ wk' = [wk EXCEPT ![w].pc = "classify", ![w].out = NoResult, ![w].extra = @ + 1]
    /\ UNCHANGED <<workerFrame, taskChan, newTaskChan, taskWg, workerDone, stats, httpLog, calDrops>>

\* ShouldBypass with safe mode ignored
ShouldBypass_IgnoresSafeMode(result) == result.StatusCode \in {403, 401}

\* the test that guards attemptBypassStrategies
ShouldBypass(result) == ~cfg.SafeMode /\ result.StatusCode \in {403, 401}

\* done405: the isInteresting test and the found counter
WorkerClassify(w) ==
    /\ ~Crashed
    /\ wk[w].pc = "classify"
    /\ IF isInteresting(wk[w].result.StatusCode)
       THEN /\ stats' = [stats EXCEPT !.Found = @ + 1]
            /\ wk' = [wk EXCEPT
                        ![w].pc = IF ShouldBypass(wk[w].result)
                                  THEN "bypass" ELSE "recurse",
                        ![w].idx = 1]
       ELSE /\ wk' = [wk EXCEPT ![w].pc = "done"]
            /\ UNCHANGED stats
    /\ UNCHANGED <<workerFrame, taskChan, resultChan, newTaskChan, taskWg, workerDone,
                   httpLog, calDrops, panicked>>

\* strings.ToUpper / strings.ToLower of one letter; other characters have no case
LowerLetters == <<"a", "b", "x">>

UpperLetters == <<"A", "B", "X">>

ToggleCase(ch) ==
    IF \E i \in 1..Len(LowerLetters) : LowerLetters[i] = ch
    THEN UpperLetters[CHOOSE i \in 1..Len(LowerLetters) : LowerLetters[i] = ch]
    ELSE IF \E i \in 1..Len(UpperLetters) : UpperLetters[i] = ch
    THEN LowerLetters[CHOOSE i \in 1..Len(UpperLetters) : UpperLetters[i] = ch]
    ELSE ch

\* strings.LastIndex(path, "/") as a 1-based position, 0 when absent
LastSlash(path) ==
    IF SlashPositions(path) = {} THEN 0
    ELSE CHOOSE i \in SlashPositions(path) : \A j \in SlashPositions(path) : j <= i

manipulateCase(path) ==
    LET lastSlash == LastSlash(path)
    IN IF lastSlash = 0 \/ lastSlash >= Len(path) THEN path
       ELSE [path EXCEPT ![lastSlash + 1] = ToggleCase(@)]

\* strings.Index(s, sub): the first position where sub occurs in s, 0 when absent
Index(s, sub) ==
    LET hits == {i \in 1..(Len(s) - Len(sub) + 1) : SubSeq(s, i, i + Len(sub) - 1) = sub}
    IN IF hits = {} THEN 0 ELSE CHOOSE i \in hits : \A j \in hits : i <= j

\* scheme and host of a URL: everything before the first "/" after "://"
extractBaseURL(rawURL) ==
    LET idx == Index(rawURL, <<":", "/", "/">>)
        rest == SubSeq(rawURL, idx + 3, Len(rawURL))
        slashIdx == Index(rest, Slash)
    IN IF idx = 0 \/ slashIdx = 0 THEN rawURL
       ELSE SubSeq(rawURL, 1, idx + 2 + slashIdx - 1)

\* the manipulated path buildBypassStrategies hands to pathBypass for each path strategy
pathStrategyPath(name, path) ==
    CASE name = "path-normalize" -> path \o <<"/", ".">>
      [] name = "path-dotslash" -> <<"/", ".", "/">> \o TrimPrefix(path, Slash)
      [] name = "path-double-slash" -> <<"/">> \o TrimPrefix(path, Slash)
      [] name = "path-trailing-slash" -> path \o <<"/">>
      [] name = "path-semicolon" -> path \o <<";">>
      [] name = "path-semicolon-slash" -> path \o <<".", ".", ";", "/">>
      [] name = "path-null-byte" -> path \o <<"%", "0", "0">>
      [] name = "path-hash" -> path \o <<"%", "2", "3">>

\* altURL: the URL a path strategy requests for a denied originalURL
pathBypass(name, originalURL) ==
    extractBaseURL(originalURL) \o pathStrategyPath(name, extractPath(originalURL))

\* the replies a bypass strategy can get; case-upper issues no request when the
\* case flip changes nothing
StrategyIssuesRequest(name, originalURL) ==
    name # "case-upper" \/ manipulateCase(extractPath(originalURL)) # extractPath(originalURL)

\* one iteration of the strategy loop of attemptBypassStrategies
WorkerBypass(w) ==
    /\ ~Crashed
    /\ wk[w].pc = "bypass"
    /\ IF ctxDone
       THEN /\ wk' = [wk EXCEPT ![w].pc = "recurse"]
            /\ UNCHANGED httpLog
       ELSE LET name == strategyNames[wk[w].idx]
                url == wk[w].result.URL
                issued == StrategyIssuesRequest(name, url)
            IN /\ \E reply \in (IF issued THEN BypassReplies(name) ELSE {ErrReply}) :
                    LET attempt == [name |-> name,
                                    ok |-> ~reply.err /\ reply.status \in {200, 301, 302}]
                    IN
                    IF ~reply.err /\ isBypassSuccess(reply.status)
                    THEN wk' = [wk EXCEPT
                                  ![w].pc = "bypassSend",
                                  ![w].tried = Append(@, attempt),
                                  ![w].out = [URL |-> url \o <<" [BYPASS:", name, "]">>,
                                              StatusCode |-> reply.status,
                                              Size |-> reply.size,
                                              Method |-> "GET+BYPASS",
                                              Critical |-> TRUE]]
                    ELSE wk' = [wk EXCEPT
                                  ![w].pc = IF wk[w].idx >= Len(strategyNames)
                                            THEN "recurse" ELSE "bypass",
                                  ![w].idx = @ + 1,
                                  ![w].tried = Append(@, attempt)]
               /\ httpLog' = IF issued
                             THEN httpLog \cup {Request(StrategyMethod(name), url, name)}
                             ELSE httpLog
    /\ UNCHANGED <<workerFrame, taskChan, resultChan, newTaskChan, taskWg, workerDone,
                   stats, calDrops, panicked>>

\* the bypass send with the found counter incremented as well
WorkerBypassSend_CountsFound(w) ==
    /\ ~Crashed
    /\ wk[w].pc = "bypassSend"
    /\ Len(resultChan) < Capacity \/ resultClosed
    /\ resultChan' = IF resultClosed THEN resultChan ELSE Append(resultChan, wk[w].out)
    /\ panicked' = (panicked \/ resultClosed)
    /\ wk' = [wk EXCEPT ![w].pc = "recurse", ![w].out = NoResult, ![w].extra = @ + 1]
    /\ stats' = [stats EXCEPT !.Found = @ + 1]
    /\ UNCHANGED <<workerFrame, taskChan, newTaskChan, taskWg, workerDone, httpLog, calDrops>>

\* results <- *bypassResult.Result
WorkerBypassSend(w) ==
    /\ ~Crashed
    /\ wk[w].pc = "bypassSend"
    /\ Len(resultChan) < Capacity \/ resultClosed
    /\ resultChan' = IF resultClosed THEN resultChan ELSE Append(resultChan, wk[w].out)
    /\ panicked' = (panicked \/ resultClosed)
    /\ wk' = [wk EXCEPT ![w].pc = "recurse", ![w].out = NoResult, ![w].extra = @ + 1]
    /\ UNCHANGED <<workerFrame, taskChan, newTaskChan, taskWg, workerDone, stats, httpLog, calDrops>>

\* ShouldRecurse with the depth test off by one
ShouldRecurse_Inclusive(task, result) ==
    cfg.MaxDepth > 0 /\ task.Depth <= cfg.MaxDepth /\ isDirectory(result)

\* the recursion test
ShouldRecurse(task, result) ==
    cfg.MaxDepth > 0 /\ task.Depth < cfg.MaxDepth /\ isDirectory(result)

\* WorkerRecurse with the taskWg.Add(1) for the new task left out
WorkerRecurse_WithoutAdd(w) ==
    /\ ~Crashed
    /\ wk[w].pc = "recurse"
    /\ wk' = [wk EXCEPT ![w].pc = IF ShouldRecurse(wk[w].task, wk[w].result)
                                  THEN "push" ELSE "emit"]
    /\ UNCHANGED <<workerFrame, taskChan, resultChan, newTaskChan, taskWg, workerDone,
                   stats, httpLog, calDrops, panicked>>

\* the recursion test and taskWg.Add(1) for the new task
WorkerRecurse(w) ==
    /\ ~Crashed
    /\ wk[w].pc = "recurse"
    /\ IF ShouldRecurse(wk[w].task, wk[w].result)
       THEN /\ taskWg' = taskWg + 1
            /\ wk' = [wk EXCEPT ![w].pc = "push"]
       ELSE /\ wk' = [wk EXCEPT ![w].pc = "emit"]
            /\ UNCHANGED taskWg
    /\ UNCHANGED <<workerFrame, taskChan, resultChan, newTaskChan, workerDone, stats,
                   httpLog, calDrops, panicked>>

\* the new task a worker derives from a directory-like response
NewTaskOf(task, result) ==
    [TargetURL |-> task.TargetURL, Path |-> extractPath(result.URL), Depth |-> task.Depth + 1]

\* select { case newTasks <- Task{...}: case <-ctx.Done(): taskWg.Done() }
WorkerPush(w) ==
    /\ ~Crashed
    /\ wk[w].pc = "push"
    /\ \/ /\ Len(newTaskChan) < Capacity \/ newTaskClosed
          /\ newTaskChan' = IF newTaskClosed THEN newTaskChan
                            ELSE Append(newTaskChan, NewTaskOf(wk[w].task, wk[w].result))
          /\ panicked' = (panicked \/ newTaskClosed)
          /\ UNCHANGED taskWg
       \/ /\ ctxDone
          /\ taskWg' = taskWg - 1
          /\ UNCHANGED <<newTaskChan, panicked>>
    /\ wk' = [wk EXCEPT ![w].pc = "emit"]
    /\ UNCHANGED <<workerFrame, taskChan, resultChan, workerDone, stats, httpLog, calDrops>>

\* results <- *result
WorkerEmit(w) ==
    /\ ~Crashed
    /\ wk[w].pc = "emit"
    /\ Len(resultChan) < Capacity \/ resultClosed
    /\ resultChan' = IF resultClosed THEN resultChan ELSE Append(resultChan, wk[w].result)
    /\ panicked' = (panicked \/ resultClosed)
    /\ wk' = [wk EXCEPT ![w].pc = "done"]
    /\ UNCHANGED <<workerFrame, taskChan, newTaskChan, taskWg, workerDone, stats, httpLog, calDrops>>

\* taskWg.Done() for the task the worker holds (error, calibration drop, normal end)
WorkerTaskDone(w) ==
    /\ ~Crashed
    /\ wk[w].pc = "done"
    /\ taskWg' = taskWg - 1
    /\ wk' = [wk EXCEPT ![w].pc = "recv", ![w].task = NoTask, ![w].result = NoResult,
                        ![w].idx = 0, ![w].tried = <<>>, ![w].extra = 0]
    /\ UNCHANGED <<workerFrame, taskChan, resultChan, newTaskChan, workerDone, stats,
                   httpLog, calDrops, panicked>>

----------------------------------------------------------------------------
(* recursion consumer *)

consumerFrame == <<transportVars, detectionVars, reportingVars, lockVars, cfg, ctxDone, mainPc, calIdx, calCache, retErr, taskClosed,
                   resultChan, resultClosed, newTaskClosed, workerDone, wk, prod,
                   closer, finisher, collector, results, httpLog, calDrops>>

\* `for newTask := range newTaskChan`
ConsumerRecv ==
    /\ ~Crashed
    /\ cons.pc = "recv"
    /\ \/ /\ newTaskChan # <<>>
          /\ cons' = [cons EXCEPT !.pc = "check", !.newTask = Head(newTaskChan)]
          /\ newTaskChan' = Tail(newTaskChan)
       \/ /\ newTaskChan = <<>>
          /\ newTaskClosed
          /\ cons' = [cons EXCEPT !.pc = "exited"]
          /\ UNCHANGED newTaskChan
    /\ UNCHANGED <<consumerFrame, taskChan, taskWg, scannedDirs, stats, fanouts,
                   dupDrops, panicked>>

\* AcceptsDirectory without the scannedDirs lookup
AcceptsDirectory_NoDedup(dirs, newTask) == newTask.Depth <= cfg.MaxDepth

\* the dedup test under dirMutex
AcceptsDirectory(dirs, newTask) ==
    /\ <<newTask.TargetURL, newTask.Path>> \notin dirs
    /\ newTask.Depth <= cfg.MaxDepth

\* the cancellation check, then the dedup decision
ConsumerCheck ==
    /\ ~Crashed
    /\ cons.pc = "check"
    /\ LET key == <<cons.newTask.TargetURL, cons.newTask.Path>>
       IN IF ctxDone
          THEN /\ taskWg' = taskWg - 1
               /\ cons' = [cons EXCEPT !.pc = "recv", !.newTask = NoTask]
               /\ UNCHANGED <<scannedDirs, fanouts, dupDrops>>
          ELSE IF AcceptsDirectory(scannedDirs, cons.newTask)
          THEN /\ scannedDirs' = scannedDirs \cup {key}
               /\ fanouts' = fanouts (+) SetToBag({key})
               /\ cons' = [cons EXCEPT
                             !.pc = IF FanOutTasks(cons.newTask) = <<>> THEN "skip" ELSE "add",
                             !.idx = 1]
               /\ UNCHANGED <<taskWg, dupDrops>>
          ELSE /\ taskWg' = taskWg - 1
               /\ dupDrops' = IF key \in scannedDirs THEN dupDrops + 1 ELSE dupDrops
               /\ cons' = [cons EXCEPT !.pc = "recv", !.newTask = NoTask]
               /\ UNCHANGED <<scannedDirs, fanouts>>
    /\ UNCHANGED <<consumerFrame, taskChan, newTaskChan, stats, panicked>>

\* taskWg.Add(1) before each generated task is sent
ConsumerAdd ==
    /\ ~Crashed
    /\ cons.pc = "add"
    /\ taskWg' = taskWg + 1
    /\ cons' = [cons EXCEPT !.pc = "send"]
    /\ UNCHANGED <<consumerFrame, taskChan, newTaskChan, scannedDirs, stats, fanouts,
                   dupDrops, panicked>>

\* select { case taskChan <- task: case <-ctx.Done(): taskWg.Done(); goto skipExtensions }
ConsumerSend ==
    /\ ~Crashed
    /\ cons.pc = "send"
    /\ \/ /\ Len(taskChan) < Capacity \/ taskClosed
          /\ taskChan' = IF taskClosed THEN taskChan
                         ELSE Append(taskChan, FanOutTasks(cons.newTask)[cons.idx])
          /\ panicked' = (panicked \/ taskClosed)
          /\ stats' = [stats EXCEPT !.Total = @ + 1]
          /\ cons' = [cons EXCEPT
                        !.pc = IF cons.idx >= Len(FanOutTasks(cons.newTask))
                               THEN "skip" ELSE "add",
                        !.idx = @ + 1]
          /\ UNCHANGED taskWg
       \/ /\ ctxDone
          /\ taskWg' = taskWg - 1
          /\ cons' = [cons EXCEPT !.pc = "skip"]
          /\ UNCHANGED <<taskChan, stats, panicked>>
    /\ UNCHANGED <<consumerFrame, newTaskChan, scannedDirs, fanouts, dupDrops>>

\* skipExtensions: taskWg.Done() for the new task itself
ConsumerSkip ==
    /\ ~Crashed
    /\ cons.pc = "skip"
    /\ taskWg' = taskWg - 1
    /\ cons' = [cons EXCEPT !.pc = "recv", !.newTask = NoTask, !.idx = 0]
    /\ UNCHANGED <<consumerFrame, taskChan, newTaskChan, scannedDirs, stats, fanouts,
                   dupDrops, panicked>>

----------------------------------------------------------------------------
(* transport: Client.DoContext and the circuit breaker *)

threshold == 10

resetTimeout == 30

\* the clock advances in steps of TickSeconds up to MaxTime
TickSeconds == 10

MaxTime == 40

\* the largest retry_attempts explored
ManyRetries == 35

\* the transport runs explored: hosts, concurrent callers, retry_attempts,
\* per-host rate and what one HTTP attempt may yield (ErrReply is a transport
\* or body-read error)
TransportScenarios ==
    { [Hosts |-> {"h"}, Callers |-> {1}, retryAttempts |-> 3, rateLimit |-> 0,
       Outcomes |-> {ErrReply, Reply(200, 0), Reply(500, 0), Reply(503, 0)}],
      [Hosts |-> {"h"}, Callers |-> {1}, retryAttempts |-> 2, rateLimit |-> 1,
       Outcomes |-> {ErrReply, Reply(404, 0), Reply(500, 0)}],
      [Hosts |-> {"h", "g"}, Callers |-> {1}, retryAttempts |-> 0, rateLimit |-> 0,
       Outcomes |-> {Reply(200, 0), Reply(500, 0)}],
      [Hosts |-> {"h"}, Callers |-> {1, 2}, retryAttempts |-> 1, rateLimit |-> 0,
       Outcomes |-> {Reply(200, 0), Reply(500, 0)}],
      [Hosts |-> {"h", "g"}, Callers |-> {1, 2, 3}, retryAttempts |-> 0, rateLimit |-> 1,
       Outcomes |-> {Reply(200, 0)}],
      [Hosts |-> {"h"}, Callers |-> {1}, retryAttempts |-> 1, rateLimit |-> -1,
       Outcomes |-> {Reply(200, 0), Reply(500, 0)}],
      [Hosts |-> {"h"}, Callers |-> {1}, retryAttempts |-> ManyRetries, rateLimit |-> 0,
       Outcomes |-> {Reply(500, 0)}] }

\* the transport when nobody uses it
IdleTransport ==
    [Hosts |-> {}, Callers |-> {}, retryAttempts |-> 0, rateLimit |-> 0, Outcomes |-> {}]

NoStreak == [count |-> 0, last |-> 0]

\* seen: the outcomes of the HTTP attempts the call has issued so far
\* limiter: the limiter getRateLimiter returned to the call (0 is nil)
\* tokens: history, the tokens the call has acquired from its limiter
CallInit == [pc |-> "idle", host |-> "", attempt |-> 0, seen |-> <<>>,
             ret |-> "none", status |-> 0, limiter |-> 0, tokens |-> 0]

TransportInit(scenarios) ==
    /\ tcfg \in scenarios
    /\ now = 0
    /\ failureCounts = <<>>
    /\ lastFailure = <<>>
    /\ limiters = <<>>
    /\ reqCtxDone = FALSE
    /\ calls = [c \in tcfg.Callers |-> CallInit]
    /\ streak = [h \in tcfg.Hosts |-> NoStreak]

\* Go map operations
MapGet(m, k, zero) == IF k \in DOMAIN m THEN m[k] ELSE zero

MapSet(m, k, v) == [x \in DOMAIN m \cup {k} |-> IF x = k THEN v ELSE m[x]]

MapDelete(m, k) == [x \in DOMAIN m \ {k} |-> m[x]]

\* time.Since(lastFail) > cb.resetTimeout
Expired(lastFail, t) == t - lastFail > resetTimeout

\* AtThreshold with a strict comparison
AtThreshold_Strict(count) == count > threshold

\* count >= cb.threshold
AtThreshold(count) == count >= threshold

\* isOpen that on expiry removes the failure count only
isOpen_KeepsLastFailure(counts, last, host, t) ==
    IF host \in DOMAIN last /\ Expired(last[host], t)
    THEN [open |-> FALSE, counts |-> MapDelete(counts, host), last |-> last]
    ELSE [open |-> AtThreshold(MapGet(counts, host, 0)), counts |-> counts, last |-> last]

\* CircuitBreaker.isOpen: the answer and the maps it leaves
isOpen(counts, last, host, t) ==
    IF host \in DOMAIN last /\ Expired(last[host], t)
    THEN [open |-> FALSE, counts |-> MapDelete(counts, host), last |-> MapDelete(last, host)]
    ELSE [open |-> AtThreshold(MapGet(counts, host, 0)), counts |-> counts, last |-> last]

\* recordFailure that stores 1 instead of counting up
recordFailure_WithoutCounting(counts, last, host, t) ==
    [counts |-> MapSet(counts, host, 1), last |-> MapSet(last, host, t)]

\* CircuitBreaker.recordFailure
recordFailure(counts, last, host, t) ==
    [counts |-> MapSet(counts, host, MapGet(counts, host, 0) + 1),
     last |-> MapSet(last, host, t)]

\* recordSuccess that forgets the lastFailure entry
recordSuccess_KeepsLastFailure(counts, last, host) ==
    [counts |-> MapDelete(counts, host), last |-> last]

\* CircuitBreaker.recordSuccess
recordSuccess(counts, last, host) ==
    [counts |-> MapDelete(counts, host), last |-> MapDelete(last, host)]

\* history of failures in a row: a success ends the row, and so does a gap longer
\* than the reset timeout between two failures
StreakAfterFailure(s, t) ==
    [count |-> IF s.count > 0 /\ t - s.last > resetTimeout THEN 1 ELSE s.count + 1,
     last |-> t]

\* IsLastAttempt that gives up one attempt early
IsLastAttempt_OneEarly(attempt) == attempt + 1 >= tcfg.retryAttempts

\* the loop test `attempt == c.retryAttempts`
IsLastAttempt(attempt) == attempt = tcfg.retryAttempts

\* Continue that consults the circuit breaker again before the next attempt
Continue_ChecksBreaker(call, seen) ==
    IF AtThreshold(MapGet(failureCounts, call.host, 0))
    THEN [call EXCEPT !.pc = "idle", !.seen = seen, !.attempt = @ + 1, !.ret = "circuit_open"]
    ELSE IF call.attempt + 1 <= tcfg.retryAttempts
    THEN [call EXCEPT !.pc = "backoff", !.seen = seen, !.attempt = @ + 1]
    ELSE [call EXCEPT !.pc = "idle", !.seen = seen, !.attempt = @ + 1, !.ret = "exhausted"]

\* `continue`: attempt++ and the loop condition `attempt <= c.retryAttempts`; when
\* it fails DoContext returns "request failed after N attempts"
Continue(call, seen) ==
    IF call.attempt + 1 <= tcfg.retryAttempts
    THEN [call EXCEPT !.pc = "backoff", !.seen = seen, !.attempt = @ + 1]
    ELSE [call EXCEPT !.pc = "idle", !.seen = seen, !.attempt = @ + 1, !.ret = "exhausted"]

transportFrame == <<engineVars, detectionVars, reportingVars, lockVars, tcfg>>

\* time passes
Tick ==
    /\ now + TickSeconds <= MaxTime
    /\ now' = now + TickSeconds
    /\ UNCHANGED <<transportFrame, failureCounts, lastFailure, limiters, reqCtxDone,
                   calls, streak>>

\* the context of the requests is cancelled
CancelRequests ==
    /\ ~reqCtxDone
    /\ reqCtxDone' = TRUE
    /\ UNCHANGED <<transportFrame, now, failureCounts, lastFailure, limiters, calls,
                   streak>>

\* rate.NewLimiter: a limiter that was not handed out before
NewLimiter(lims) ==
    1 + (IF DOMAIN lims = {} THEN 0
         ELSE CHOOSE n \in {lims[h] : h \in DOMAIN lims} :
                \A h \in DOMAIN lims : lims[h] <= n)

\* LockedLookup without the second lookup under the writer lock
LockedLookup_NoRecheck(lims, host) ==
    [limiter |-> NewLimiter(lims), lims |-> MapSet(lims, host, NewLimiter(lims))]

\* getRateLimiter under the writer lock: look the host up again, create and store a
\* limiter only when it is still absent
LockedLookup(lims, host) ==
    IF host \in DOMAIN lims
    THEN [limiter |-> lims[host], lims |-> lims]
    ELSE [limiter |-> NewLimiter(lims), lims |-> MapSet(lims, host, NewLimiter(lims))]

\* DoContext up to the limiter lookup: the circuit-breaker check
DoContextStart(c, host) ==
    /\ calls[c].pc = "idle"
    /\ LET chk == isOpen(failureCounts, lastFailure, host, now)
       IN /\ failureCounts' = chk.counts
          /\ lastFailure' = chk.last
          /\ IF chk.open
             THEN /\ calls' = [calls EXCEPT ![c] = [CallInit EXCEPT !.host = host,
                                                               !.ret = "circuit_open"]]
                  /\ UNCHANGED limiters
             ELSE /\ calls' = [calls EXCEPT ![c] = [CallInit EXCEPT
                                   !.host = host,
                                   !.pc = IF tcfg.rateLimit > 0 THEN "lookup" ELSE "attempt"]]
                  /\ UNCHANGED limiters
    /\ UNCHANGED <<transportFrame, now, reqCtxDone, streak>>

\* getRateLimiter, first half: the lookup under the reader lock
LimiterLookup(c) ==
    /\ calls[c].pc = "lookup"
    /\ calls' = IF calls[c].host \in DOMAIN limiters
                THEN [calls EXCEPT ![c].pc = "limiter", ![c].limiter = limiters[calls[c].host]]
                ELSE [calls EXCEPT ![c].pc = "create"]
    /\ UNCHANGED <<transportFrame, now, failureCounts, lastFailure, limiters, reqCtxDone,
                   streak>>

\* getRateLimiter, second half: the double-checked creation under the writer lock
LimiterCreate(c) ==
    /\ calls[c].pc = "create"
    /\ LET got == LockedLookup(limiters, calls[c].host)
       IN /\ limiters' = got.lims
          /\ calls' = [calls EXCEPT ![c].pc = "limiter", ![c].limiter = got.limiter]
    /\ UNCHANGED <<transportFrame, now, failureCounts, lastFailure, reqCtxDone, streak>>

\* limiter.Wait(ctx): a token is granted, or the wait fails on cancellation
LimiterWait(c) ==
    /\ calls[c].pc = "limiter"
    /\ \/ calls' = [calls EXCEPT ![c].pc = "attempt", ![c].tokens = @ + 1]
       \/ /\ reqCtxDone
          /\ calls' = [calls EXCEPT ![c].pc = "idle", ![c].ret = "rate_cancelled"]
    /\ UNCHANGED <<transportFrame, now, failureCounts, lastFailure, limiters, reqCtxDone,
                   streak>>

----------------------------------------------------------------------------
(* int64 arithmetic of time.Duration: a word is the set of its one bits, bit 63 the sign *)

WordBits == 0..63

\* the word of a small non-negative number
Word(n) == {i \in 0..30 : (n \div 2^i) % 2 = 1}

IsNegative(w) == 63 \in w

\* a > b, both taken as unsigned
UnsignedGreater(a, b) ==
    \E i \in a \ b : \A j \in (i + 1)..63 : (j \in a) <=> (j \in b)

\* a > b on int64
Greater(a, b) ==
    IF IsNegative(a) # IsNegative(b) THEN IsNegative(b) ELSE UnsignedGreater(a, b)

\* w << k, the bits shifted out of the word are lost
ShiftLeft(w, k) == {i + k : i \in w} \cap WordBits

\* the carry into bit i of a + b: some lower bit generates it and every bit in
\* between passes it on
Carry(a, b, i) ==
    \E j \in 0..(i - 1) :
        /\ j \in a /\ j \in b
        /\ \A k \in (j + 1)..(i - 1) : k \in a \/ k \in b

\* a + b modulo 2^64
Add(a, b) == {i \in WordBits : ((i \in a) # (i \in b)) # Carry(a, b, i)}

\* a * b modulo 2^64: the sum of the shifts of a by the one bits of b
RECURSIVE Multiply(_, _)
Multiply(a, b) ==
    IF b = {} THEN {}
    ELSE LET i == CHOOSE x \in b : TRUE
         IN Add(ShiftLeft(a, i), Multiply(a, b \ {i}))

\* time.Second, in nanoseconds
Second == Word(1000000000)

\* time.Duration(math.Pow(2, float64(attempt))): 2^attempt, exact up to 2^62
PowerOfTwo(attempt) == {attempt}

\* the ceiling of jitter, 30 * time.Second
ceiling == Multiply(Second, Word(30))

\* Client.jitter up to the call of Int63n: the bound the backoff is drawn below
jitterBase(attempt) ==
    LET base == Multiply(Second, PowerOfTwo(attempt))
    IN IF Greater(base, ceiling) THEN ceiling ELSE base

\* rng.Int63n(n) panics unless n > 0
Int63nPanics(n) == n = {} \/ IsNegative(n)

\* Backoff that waits on the limiter again before the retry
Backoff_WaitsOnLimiter(c) ==
    /\ calls[c].pc = "backoff"
    /\ IF Int63nPanics(jitterBase(calls[c].attempt - 1))
       THEN calls' = [calls EXCEPT ![c].pc = "panicked"]
       ELSE \/ calls' = [calls EXCEPT ![c].pc = IF calls[c].limiter # 0 THEN "limiter"
                                                ELSE "attempt"]
            \/ /\ reqCtxDone
               /\ calls' = [calls EXCEPT ![c].pc = "idle", ![c].ret = "cancelled"]
    /\ UNCHANGED <<transportFrame, now, failureCounts, lastFailure, limiters, reqCtxDone,
                   streak>>

\* the backoff before a retry: jitter draws the duration below its bound, or panics
\* in Int63n; then the timer fires, or the context is cancelled
Backoff(c) ==
    /\ calls[c].pc = "backoff"
    /\ IF Int63nPanics(jitterBase(calls[c].attempt - 1))
       THEN calls' = [calls EXCEPT ![c].pc = "panicked"]
       ELSE \/ calls' = [calls EXCEPT ![c].pc = "attempt"]
            \/ /\ reqCtxDone
               /\ calls' = [calls EXCEPT ![c].pc = "idle", ![c].ret = "cancelled"]
    /\ UNCHANGED <<transportFrame, now, failureCounts, lastFailure, limiters, reqCtxDone,
                   streak>>

\* one attempt of the retry loop: the cancellation check, httpClient.Do, readBody,
\* and the bookkeeping that follows
Attempt(c) ==
    /\ calls[c].pc = "attempt"
    /\ LET host == calls[c].host
           last == IsLastAttempt(calls[c].attempt)
           failed == recordFailure(failureCounts, lastFailure, host, now)
           cleared == recordSuccess(failureCounts, lastFailure, host)
       IN IF reqCtxDone
          THEN /\ calls' = [calls EXCEPT ![c].pc = "idle", ![c].ret = "cancelled"]
               /\ UNCHANGED <<failureCounts, lastFailure, streak>>
          ELSE /\ \E outcome \in tcfg.Outcomes :
                    LET seen == Append(calls[c].seen, outcome)
                    IN IF outcome.err
                       THEN IF last
                            THEN /\ failureCounts' = failed.counts
                                 /\ lastFailure' = failed.last
                                 /\ streak' = [streak EXCEPT ![host] = StreakAfterFailure(@, now)]
                                 /\ calls' = [calls EXCEPT ![c].pc = "idle", ![c].seen = seen,
                                                           ![c].ret = "error"]
                            ELSE /\ calls' = [calls EXCEPT ![c] = Continue(@, seen)]
                                 /\ UNCHANGED <<failureCounts, lastFailure, streak>>
                       ELSE IF outcome.status >= 500
                       THEN /\ failureCounts' = failed.counts
                            /\ lastFailure' = failed.last
                            /\ streak' = [streak EXCEPT ![host] = StreakAfterFailure(@, now)]
                            /\ calls' = IF last
                                        THEN [calls EXCEPT ![c].pc = "idle", ![c].seen = seen,
                                                           ![c].ret = "response",
                                                           ![c].status = outcome.status]
                                        ELSE [calls EXCEPT ![c] = Continue(@, seen)]
                       ELSE /\ failureCounts' = cleared.counts
                            /\ lastFailure' = cleared.last
                            /\ streak' = [streak EXCEPT ![host] = NoStreak]
                            /\ calls' = [calls EXCEPT ![c].pc = "idle", ![c].seen = seen,
                                                      ![c].ret = "response",
                                                      ![c].status = outcome.status]
    /\ UNCHANGED <<transportFrame, now, limiters, reqCtxDone>>

TransportNext ==
    \/ Tick
    \/ CancelRequests
    \/ \E c \in tcfg.Callers, host \in tcfg.Hosts : DoContextStart(c, host)
    \/ \E c \in tcfg.Callers : LimiterLookup(c)
    \/ \E c \in tcfg.Callers : LimiterCreate(c)
    \/ \E c \in tcfg.Callers : LimiterWait(c)
    \/ \E c \in tcfg.Callers : Backoff(c)
    \/ \E c \in tcfg.Callers : Attempt(c)

----------------------------------------------------------------------------
(* detection: the pure functions, each applied to arguments drawn at the start *)

\* no call of a detection function
NoCall == [fn |-> "none"]

NoReturn == [fn |-> "none"]

\* longest signature list explored
MaxSignatures == 2

\* the status codes, body sizes and signatures MatchesSignature is applied to: sizes
\* on both sides of the 5% bound of a 100-byte and of a 20-byte baseline, and an
\* empty body
MatchStatuses == {200, 404}

MatchSizes == {0, 1, 19, 20, 21, 94, 95, 96, 100, 102, 104, 105, 106, 200}

SignatureSizes == {0, 20, 100}

SignatureLists ==
    UNION {[1..n -> [StatusCode : MatchStatuses, Size : SignatureSizes]] : n \in 0..MaxSignatures}

MatchCalls ==
    [fn : {"MatchesSignature"}, statusCode : MatchStatuses, size : MatchSizes,
     signatures : SignatureLists]

\* the Patterns table: names in table order, MinEntropy where it is set (whole bits)
Patterns ==
    << [Name |-> "AWS Access Key", MinEntropy |-> 0],
       [Name |-> "AWS Secret Key", MinEntropy |-> 0],
       [Name |-> "Generic API Key", MinEntropy |-> 3],
       [Name |-> "Private Key", MinEntropy |-> 0],
       [Name |-> "JWT Token", MinEntropy |-> 0],
       [Name |-> "Slack Token", MinEntropy |-> 0],
       [Name |-> "Google API Key", MinEntropy |-> 0],
       [Name |-> "GitHub Token", MinEntropy |-> 0],
       [Name |-> "Stripe Secret Key", MinEntropy |-> 0],
       [Name |-> "Stripe Publishable Key", MinEntropy |-> 0],
       [Name |-> "Heroku API Key", MinEntropy |-> 0],
       [Name |-> "Database Connection String", MinEntropy |-> 0],
       [Name |-> "Mailgun API Key", MinEntropy |-> 0],
       [Name |-> "Twilio API Key", MinEntropy |-> 0],
       [Name |-> "Generic Password", MinEntropy |-> 3] >>

\* longest content explored, in pieces
MaxContent == 3

\* a content is a sequence of pieces: text that matches no pattern (pattern 0), or
\* one occurrence of a pattern together with the Shannon entropy of its value
Pieces ==
    {[pattern |-> 0, entropy |-> 0]}
      \cup [pattern : {1}, entropy : {4}]
      \cup [pattern : {3, 15}, entropy : {2, 4}]

SecretCalls ==
    [fn : {"DetectSecrets"}, content : UNION {[1..n -> Pieces] : n \in 0..MaxContent}]

\* the positions in content where pattern k occurs
Occurrences(content, k) == {i \in 1..Len(content) : content[i].pattern = k}

\* pattern.Pattern.MatchString(content)
MatchString(content, k) == Occurrences(content, k) # {}

\* pattern.Pattern.FindString(content): the leftmost occurrence
FindString(content, k) ==
    content[CHOOSE i \in Occurrences(content, k) : \A j \in Occurrences(content, k) : i <= j]

\* the loop of DetectSecretsDetailed from pattern k on; secretMap is the set of names
\* already reported
RECURSIVE DetectFrom(_, _, _, _)
DetectFrom(content, k, foundSecrets, secretMap) ==
    IF k > Len(Patterns) THEN foundSecrets
    ELSE LET pattern == Patterns[k]
         IN IF ~MatchString(content, k) THEN DetectFrom(content, k + 1, foundSecrets, secretMap)
            ELSE IF pattern.Name \in secretMap
            THEN DetectFrom(content, k + 1, foundSecrets, secretMap)
            ELSE IF pattern.MinEntropy > 0
                    /\ FindString(content, k).entropy < pattern.MinEntropy
            THEN DetectFrom(content, k + 1, foundSecrets, secretMap)
            ELSE DetectFrom(content, k + 1, Append(foundSecrets, pattern.Name),
                            secretMap \cup {pattern.Name})

\* DetectSecretsDetailed reporting every occurrence of a pattern
RECURSIVE DetectSecretsDetailed_PerOccurrence(_)
DetectSecretsDetailed_PerOccurrence(content) ==
    IF content = <<>> THEN <<>>
    ELSE (IF Head(content).pattern = 0 THEN <<>> ELSE <<Patterns[Head(content).pattern].Name>>)
         \o DetectSecretsDetailed_PerOccurrence(Tail(content))

\* DetectSecretsDetailed, as the names of the matches it returns
DetectSecretsDetailed(content) == DetectFrom(content, 1, <<>>, {})

\* DetectSecrets: the names of the matches, in order
DetectSecrets(content) == DetectSecretsDetailed(content)

DetectionInit(inputs) ==
    /\ detIn \in inputs
    /\ detOut = NoReturn

\* the call MatchesSignature(statusCode, size, signatures) returns
CallMatchesSignature ==
    /\ detIn.fn = "MatchesSignature"
    /\ detOut = NoReturn
    /\ detOut' = [fn |-> "MatchesSignature",
                  matches |-> MatchesSignature(detIn.statusCode, detIn.size, detIn.signatures)]
    /\ UNCHANGED <<engineVars, transportVars, reportingVars, lockVars, detIn>>

\* the call DetectSecrets(content) returns
CallDetectSecrets ==
    /\ detIn.fn = "DetectSecrets"
    /\ detOut = NoReturn
    /\ detOut' = [fn |-> "DetectSecrets", names |-> DetectSecrets(detIn.content)]
    /\ UNCHANGED <<engineVars, transportVars, reportingVars, lockVars, detIn>>

----------------------------------------------------------------------------
(* reporting: SaveJSON and SaveJSONReport, applied to the results of a scan *)

\* the characters of the URLs, in byte order
Alphabet == <<"/", ":", "a", "b", "g", "h", "p", "t">>

Byte(c) == CHOOSE i \in 1..Len(Alphabet) : Alphabet[i] = c

\* < on Go strings: byte-wise lexicographic, a proper prefix is the smaller one
RECURSIVE StringLess(_, _)
StringLess(a, b) ==
    IF b = <<>> THEN FALSE
    ELSE IF a = <<>> THEN TRUE
    ELSE IF a[1] # b[1] THEN Byte(a[1]) < Byte(b[1])
    ELSE StringLess(Tail(a), Tail(b))

\* the less function both writers hand to sort.Slice
less(x, y) ==
    IF x.URL # y.URL THEN StringLess(x.URL, y.URL) ELSE x.StatusCode < y.StatusCode

\* one pass of the insertion sort: x moves left past the elements it is less than
RECURSIVE InsertSorted(_, _)
InsertSorted(sorted, x) ==
    IF sorted = <<>> THEN <<x>>
    ELSE IF less(x, sorted[Len(sorted)])
         THEN Append(InsertSorted(SubSeq(sorted, 1, Len(sorted) - 1), x), sorted[Len(sorted)])
         ELSE Append(sorted, x)

\* sort.Slice(sorted, less): not a stable sort; on slices of at most 12 elements it is
\* an insertion sort, so what it returns is a function of the order of its input
RECURSIVE SortSlice(_)
SortSlice(s) ==
    IF s = <<>> THEN <<>>
    ELSE InsertSorted(SortSlice(SubSeq(s, 1, Len(s) - 1)), s[Len(s)])

\* time.Now().Format(time.RFC3339): the time to the second (the clock counts half seconds)
RFC3339(t) == t \div 2

RECURSIVE Concat(_)
Concat(ss) == IF ss = <<>> THEN <<>> ELSE Head(ss) \o Concat(Tail(ss))

\* hashStrings: a digest of the concatenation of the strings; SHA-256 is taken to be
\* free of collisions, so the digest is represented by the bytes it was computed from
hashStrings(ss) == Concat(ss)

\* what SaveJSON encodes: the sorted copy of the results. The JSON encoding of a value
\* is a function of the value and keeps every field modelled, so a file is represented
\* by the value encoded
SaveJSON(rs) == SortSlice(rs)

\* what SaveJSONReport encodes, when time.Now() returns t
SaveJSONReport(rs, targets, runID, t) ==
    LET sorted == SortSlice(rs)
    IN  [schema_version |-> "3.0",
         run_id         |-> runID,
         metadata       |-> [start_time    |-> RFC3339(t),
                             end_time      |-> RFC3339(t),
                             target_count  |-> Len(targets),
                             targets_hash  |-> hashStrings(targets),
                             total_results |-> Len(sorted),
                             version       |-> "3.0.0"],
         results        |-> sorted]

\* longest result list explored, last clock value, and number of files written
MaxResults == 2
MaxClock == 3
MaxCalls == 2

\* the Results reported: three URLs of one target, two statuses, and two request times,
\* so that results can agree on URL and status and still differ
ReportURLs ==
    {TaskURL([TargetURL |-> T1, Path |-> w, Depth |-> 0]) :
        w \in {<<"a">>, <<"a", "b">>, <<"b">>}}

ReportResults ==
    [URL : ReportURLs, StatusCode : {200, 403}, Timestamp : {"t0", "t1"}]

ResultLists == UNION {[1..n -> ReportResults] : n \in 0..MaxResults}

Reports == [results : ResultLists, targets : {<<T1>>, <<T1, T2>>}, runID : {"run-1"}]

NoReport == [results |-> <<>>, targets |-> <<>>, runID |-> ""]

ReportingInit(inputs) ==
    /\ reportIn \in inputs
    /\ clock = 0
    /\ files = <<>>

\* the reorderings of a list
Reorderings(s) ==
    {[i \in 1..Len(s) |-> s[p[i]]] :
        p \in {q \in [1..Len(s) -> 1..Len(s)] : \A i, j \in 1..Len(s) : q[i] = q[j] => i = j}}

reportingFrame == <<engineVars, transportVars, detectionVars, lockVars>>

\* half a second passes
ReportTick ==
    /\ clock < MaxClock
    /\ clock' = clock + 1
    /\ UNCHANGED <<reportingFrame, reportIn, files>>

\* the collector gathers the same results in another order: the order in which the
\* workers delivered them
Reorder ==
    /\ \E rs \in Reorderings(reportIn.results) :
        /\ rs # reportIn.results
        /\ reportIn' = [reportIn EXCEPT !.results = rs]
    /\ UNCHANGED <<reportingFrame, clock, files>>

\* a call of SaveJSON(results, filename)
CallSaveJSON ==
    /\ Len(files) < MaxCalls
    /\ files' = Append(files, [fn |-> "SaveJSON", args |-> reportIn,
                               content |-> SaveJSON(reportIn.results)])
    /\ UNCHANGED <<reportingFrame, reportIn, clock>>

\* a call of SaveJSONReport(results, filename, targets, runID)
CallSaveJSONReport ==
    /\ Len(files) < MaxCalls
    /\ files' = Append(files, [fn |-> "SaveJSONReport", args |-> reportIn,
                               content |-> SaveJSONReport(reportIn.results, reportIn.targets,
                                                          reportIn.runID, clock)])
    /\ UNCHANGED <<reportingFrame, reportIn, clock>>

ReportingNext ==
    \/ ReportTick
    \/ Reorder
    \/ CallSaveJSON
    \/ CallSaveJSONReport

----------------------------------------------------------------------------
(* locking: the order of Lock, Unlock, HTTP calls and channel sends in each goroutine.
   A goroutine's code is a sequence of instructions, numbered from 1; position 0 is
   a goroutine that is not running.  Tests on data are branches that may go either
   way. *)

Lock(m) == [op |-> "Lock", m |-> m, mode |-> "w"]

Unlock(m) == [op |-> "Unlock", m |-> m, mode |-> "w"]

RLock(m) == [op |-> "Lock", m |-> m, mode |-> "r"]

RUnlock(m) == [op |-> "Unlock", m |-> m, mode |-> "r"]

\* an HTTP call: httpClient.Do / client.Do
HTTPCall == [op |-> "Request"]

\* limiter.Wait(ctx)
Wait == [op |-> "Wait"]

\* ch <- v
Send(ch) == [op |-> "Send", ch |-> ch]

\* for v := range ch: the next value, or position closed when ch is closed and drained
Range(ch, closed) == [op |-> "Range", ch |-> ch, closed |-> closed]

\* if / select / loop test / return: control goes to one of the positions
Branch(to) == [op |-> "Branch", to |-> to]

\* the go statements of RunContext
Go == [op |-> "Go"]

\* Client.DoContext placed at position base, returning to position ret:
\* circuit-breaker check, limiter lookup and wait, then the attempt loop
DoContext(base, ret) ==
    << Lock("cb.mu"), Unlock("cb.mu"),
       Branch({ret, base + 3, base + 9}),
       RLock("limitersMu"), RUnlock("limitersMu"),
       Branch({base + 6, base + 8}),
       Lock("limitersMu"), Unlock("limitersMu"),
       Wait,
       Branch({base + 10, ret}),
       HTTPCall,
       Branch({base + 12, base + 15}),
       Lock("cb.mu"), Unlock("cb.mu"),
       Branch({ret, base + 15}),
       Lock("rngMu"), Unlock("rngMu"),
       Branch({base + 9, ret}) >>

\* a worker: the range over tasks, makeRequest, the calibration lookup, the requests
\* of method fuzzing and bypass, the sends on results and newTasks, the done signal
workerProgram ==
    << Range("tasks", 50), Branch({1, 3}) >>
    \o DoContext(3, 21)
    \o << Branch({1, 22}),
          RLock("calCache.mu"), RUnlock("calCache.mu"),
          Branch({1, 25, 45}) >>
    \o DoContext(25, 43)
    \o << Branch({25, 44, 45}),
          Send("results"),
          Branch({46, 47}),
          Send("newTasks"),
          Branch({48, 49}),
          Send("results"),
          Branch({1}),
          Send("done"),
          Branch({0}) >>

\* the recursion consumer with the dedup unlock placed after the fan-out sends
consumerProgram_UnlocksAfterFanOut ==
    << Range("newTasks", 0), Branch({1, 3}),
       Lock("dirMutex"),
       Branch({5, 9}),
       Send("tasks"),
       Branch({5, 7}),
       Unlock("dirMutex"),
       Branch({1}),
       Unlock("dirMutex"),
       Branch({1}) >>

\* the recursion consumer: cancellation check, dedup under dirMutex, fan-out sends
consumerProgram ==
    << Range("newTasks", 0), Branch({1, 3}),
       Lock("dirMutex"),
       Branch({5, 9}),
       Unlock("dirMutex"),
       Send("tasks"),
       Branch({6, 8}),
       Branch({1}),
       Unlock("dirMutex"),
       Branch({1}) >>

\* the result collector: the append under resultsMutex
collectorProgram ==
    << Range("results", 0),
       Lock("resultsMutex"), Unlock("resultsMutex"),
       Branch({1}) >>

\* RunContext: PerformCalibration for each target (cache lookup, three random
\* numbers, three probes, cache store), then the goroutines
mainProgram ==
    << RLock("calCache.mu"), RUnlock("calCache.mu"),
       Branch({4, 15}),
       Lock("calRng.mu"), Unlock("calRng.mu"),
       Lock("calRng.mu"), Unlock("calRng.mu"),
       Lock("calRng.mu"), Unlock("calRng.mu"),
       HTTPCall, HTTPCall, HTTPCall,
       Lock("calCache.mu"), Unlock("calCache.mu"),
       Branch({0, 1, 16}),
       Go,
       Branch({0}) >>

Goroutines == {"main", "worker1", "worker2", "consumer", "collector"}

Program(g) ==
    CASE g = "main" -> mainProgram
      [] g = "consumer" -> consumerProgram
      [] g = "collector" -> collectorProgram
      [] OTHER -> workerProgram

\* the instruction goroutine g is at
Instruction(g) ==
    IF lockSt[g].pc = 0 THEN [op |-> "none"] ELSE Program(g)[lockSt[g].pc]

LocksInit(gs) ==
    lockSt = [g \in gs |-> [pc |-> IF g = "main" THEN 1 ELSE 0, held |-> {}]]

lockFrame == <<engineVars, transportVars, detectionVars, reportingVars>>

\* a sync.Mutex / sync.RWMutex lets the caller in: nobody holds it, or for a read
\* lock nobody holds it for writing
CanAcquire(m, mode) ==
    \A h \in DOMAIN lockSt :
        \A l \in lockSt[h].held : l.m = m => (mode = "r" /\ l.mode = "r")

GoTo(g, pc) == lockSt' = [lockSt EXCEPT ![g].pc = pc]

\* mu.Lock() / mu.RLock()
Acquire(g) ==
    /\ Instruction(g).op = "Lock"
    /\ CanAcquire(Instruction(g).m, Instruction(g).mode)
    /\ lockSt' = [lockSt EXCEPT ![g].pc = @ + 1,
                                ![g].held = @ \cup {[m |-> Instruction(g).m,
                                                     mode |-> Instruction(g).mode]}]
    /\ UNCHANGED lockFrame

\* mu.Unlock() / mu.RUnlock(), deferred or not
Release(g) ==
    /\ Instruction(g).op = "Unlock"
    /\ lockSt' = [lockSt EXCEPT ![g].pc = @ + 1,
                                ![g].held = @ \ {[m |-> Instruction(g).m,
                                                  mode |-> Instruction(g).mode]}]
    /\ UNCHANGED lockFrame

\* the HTTP call returns
IssueRequest(g) ==
    /\ Instruction(g).op = "Request"
    /\ GoTo(g, lockSt[g].pc + 1)
    /\ UNCHANGED lockFrame

\* limiter.Wait returns
WaitLimiter(g) ==
    /\ Instruction(g).op = "Wait"
    /\ GoTo(g, lockSt[g].pc + 1)
    /\ UNCHANGED lockFrame

\* the channel send completes
SendOn(g) ==
    /\ Instruction(g).op = "Send"
    /\ GoTo(g, lockSt[g].pc + 1)
    /\ UNCHANGED lockFrame

\* the range loop receives a value or ends
ReceiveOrExit(g) ==
    /\ Instruction(g).op = "Range"
    /\ \E pc \in {lockSt[g].pc + 1, Instruction(g).closed} : GoTo(g, pc)
    /\ UNCHANGED lockFrame

Jump(g) ==
    /\ Instruction(g).op = "Branch"
    /\ \E pc \in Instruction(g).to : GoTo(g, pc)
    /\ UNCHANGED lockFrame

\* RunContext starts the collector, the consumer and the workers
StartGoroutines ==
    /\ Instruction("main").op = "Go"
    /\ lockSt' = [g \in DOMAIN lockSt |->
                    [lockSt[g] EXCEPT !.pc = IF g = "main" THEN @ + 1 ELSE 1]]
    /\ UNCHANGED lockFrame

LocksNext ==
    \/ StartGoroutines
    \/ \E g \in DOMAIN lockSt :
          \/ Acquire(g)
          \/ Release(g)
          \/ IssueRequest(g)
          \/ WaitLimiter(g)
          \/ SendOn(g)
          \/ ReceiveOrExit(g)
          \/ Jump(g)

\* a scan that is never started: the engine part of the state of a transport run
NoScan == [Targets |-> <<>>, Words |-> <<>>, Extensions |-> <<>>,
           Threads |-> 1, MaxDepth |-> 0, SafeMode |-> FALSE, server |-> "plain"]

TransportOnlyInit ==
    /\ EngineInit({NoScan})
    /\ TransportInit(TransportScenarios)
    /\ DetectionInit({NoCall})
    /\ ReportingInit({NoReport})
    /\ LocksInit({})

SpecTransport == TransportOnlyInit /\ [][TransportNext]_vars

DetectionOnlyInit ==
    /\ EngineInit({NoScan})
    /\ TransportInit({IdleTransport})
    /\ DetectionInit(MatchCalls \cup SecretCalls)
    /\ ReportingInit({NoReport})
    /\ LocksInit({})

DetectionNext ==
    \/ CallMatchesSignature
    \/ CallDetectSecrets

SpecDetection == DetectionOnlyInit /\ [][DetectionNext]_vars

ReportingOnlyInit ==
    /\ EngineInit({NoScan})
    /\ TransportInit({IdleTransport})
    /\ DetectionInit({NoCall})
    /\ ReportingInit(Reports)
    /\ LocksInit({})

SpecReporting == ReportingOnlyInit /\ [][ReportingNext]_vars

LocksOnlyInit ==
    /\ EngineInit({NoScan})
    /\ TransportInit({IdleTransport})
    /\ DetectionInit({NoCall})
    /\ ReportingInit({NoReport})
    /\ LocksInit(Goroutines)

SpecLocks == LocksOnlyInit /\ [][LocksNext]_vars

Init ==
    /\ EngineInit(Scenarios)
    /\ TransportInit({IdleTransport})
    /\ DetectionInit({NoCall})
    /\ ReportingInit({NoReport})
    /\ LocksInit({})

----------------------------------------------------------------------------
(* the engine as a whole *)

WorkerStep(w) ==
    \/ WorkerRecv(w)
    \/ WorkerCheck(w)
    \/ WorkerUserAgent(w)
    \/ WorkerRequest(w)
    \/ WorkerFuzz(w)
    \/ WorkerFuzzSend(w)
    \/ WorkerClassify(w)
    \/ WorkerBypass(w)
    \/ WorkerBypassSend(w)
    \/ WorkerRecurse(w)
    \/ WorkerPush(w)
    \/ WorkerEmit(w)
    \/ WorkerTaskDone(w)

ConsumerStep ==
    \/ ConsumerRecv
    \/ ConsumerCheck
    \/ ConsumerAdd
    \/ ConsumerSend
    \/ ConsumerSkip

\* every step of RunContext and of its goroutines, cancellation excluded
EngineStep ==
    \/ CalibrateTarget
    \/ StartScan
    \/ Return
    \/ ProducerSend
    \/ CloserWait
    \/ CloserClose
    \/ FinisherRecv
    \/ FinisherCloseResults
    \/ FinisherCloseNewTasks
    \/ CollectorRecv
    \/ CollectorExit
    \/ ConsumerStep
    \/ \E w \in DOMAIN wk : WorkerStep(w)

Next ==
    \/ Cancel
    \/ EngineStep

Spec == Init /\ [][Next]_vars

----------------------------------------------------------------------------
(* termination *)

\* RunContext has not returned, yet no goroutine of the scan can take a step
Hung == mainPc # "returned" /\ ~ENABLED EngineStep

\* C1: with no cancellation RunContext always returns: as long as the context
\* is not cancelled and RunContext has not returned, some goroutine of the scan
\* can take a step (the scan never hangs), recursion included.
C1_ReturnsWithoutCancel == ~ctxDone => ~Hung

\* C3: once the context is cancelled the workers account for their tasks and
\* RunContext returns: after cancellation the scan never reaches a state in
\* which it has not returned and no goroutine can take a step.
C3_ReturnsAfterCancel == ctxDone => ~Hung

----------------------------------------------------------------------------
(* task accounting *)

\* seed tasks RunContext has added to taskWg and the producer has not sent
UnsentSeeds == IF prod.pc = "off" THEN 0 ELSE initialTaskCount - (prod.idx - 1)

\* workers that hold a task they have not yet called taskWg.Done() for
HoldingWorkers == {w \in DOMAIN wk : wk[w].pc \notin {"recv", "exited"}}

\* workers that called taskWg.Add(1) for a new task they have not handed over
PushingWorkers == {w \in DOMAIN wk : wk[w].pc = "push"}

\* tasks and new tasks that are queued or in flight
InFlight ==
    Len(taskChan) + Cardinality(HoldingWorkers) + Len(newTaskChan)
    + (IF cons.pc \in {"check", "add", "send", "skip"} THEN 1 ELSE 0)

\* taskWg.Add(1) calls whose task has not been sent yet
PendingAdds ==
    Cardinality(PushingWorkers) + (IF cons.pc = "send" THEN 1 ELSE 0)

\* C2: every task is accounted for exactly once: the outstanding-task counter
\* always equals the number of seed tasks not yet sent plus the tasks and new
\* tasks queued or held by a worker or by the recursion consumer (plus the
\* additions made for a task about to be sent), on every worker and consumer
\* path; it is never negative and is zero only when nothing is queued or in flight.
C2_ExactlyOnceAccounting ==
    /\ taskWg = UnsentSeeds + InFlight + PendingAdds
    /\ taskWg >= 0
    /\ taskWg = 0 => InFlight = 0

\* a scan that returned with the counter at zero after the consumer dropped a
\* duplicate directory, a request failed, and a task was accounted for on the
\* cancelled path (it was dequeued but never processed)
C2_Witness ==
    /\ mainPc = "returned"
    /\ taskWg = 0
    /\ dupDrops > 0
    /\ stats.Errors > 0
    /\ stats.Processed < stats.Total

----------------------------------------------------------------------------
(* results *)

\* every Result sent by a worker: collected or still in the results channel
Emitted == {results[i] : i \in 1..Len(results)} \cup {resultChan[i] : i \in 1..Len(resultChan)}

\* the target a Result belongs to
ResultTarget(r) ==
    CHOOSE t \in {cfg.Targets[i] : i \in 1..Len(cfg.Targets)} :
        HasPrefix(r.URL, TrimSuffix(t, Slash) \o Slash)

\* C4: no emitted Result (primary, method-fuzz or bypass) has a status and size
\* that match a calibration signature of its target.
C4_NoResultMatchesCalibration ==
    \A r \in Emitted :
        ~MatchesSignature(r.StatusCode, r.Size, CacheGet(calCache, ResultTarget(r)))

\* C5: every emitted Result of a primary GET has a status s with
\* 200 <= s < 400 or s in {401, 403}; every other emitted Result is a bypass or
\* method-fuzz outcome with critical = true.
C5_ResultsAreInterestingOrCritical ==
    \A r \in Emitted :
        IF r.Method = "GET"
        THEN (r.StatusCode >= 200 /\ r.StatusCode < 400) \/ r.StatusCode \in {401, 403}
        ELSE r.Critical /\ r.Method \in {"GET+BYPASS", "POST", "PUT", "DELETE", "PATCH"}

\* a run that collected a primary Result for a denied response together with
\* the bypass Result obtained for it
C5_Witness ==
    /\ \E i \in 1..Len(results) : results[i].Method = "GET" /\ results[i].StatusCode = 401
    /\ \E i \in 1..Len(results) : results[i].Method = "GET+BYPASS" /\ results[i].Critical
    /\ stats.Processed = 1

----------------------------------------------------------------------------
(* recursion *)

\* C6: the recursion consumer fans out at most once per (target, directory
\* path): no pair is ever accepted twice, whatever the interleaving of workers.
C6_FanOutOncePerDirectory ==
    \A key \in BagToSet(fanouts) : CopiesIn(key, fanouts) <= 1

\* two workers reported the same directory; one report was fanned out and the
\* other was dropped as a duplicate
C6_Witness ==
    /\ cfg.Threads = 2
    /\ dupDrops > 0
    /\ BagToSet(fanouts) # {}

\* every Task value alive in the engine
LiveTasks ==
    {taskChan[i] : i \in 1..Len(taskChan)}
    \cup {newTaskChan[i] : i \in 1..Len(newTaskChan)}
    \cup {wk[w].task : w \in HoldingWorkers}
    \cup (IF cons.pc \in {"check", "add", "send", "skip"} THEN {cons.newTask} ELSE {})

\* C7: every task has depth >= 1 and, when max_depth > 0, depth <= max_depth
\* (with max_depth = 2 no third-level task is ever created); with recursion
\* off every task has depth 1.
C7_DepthBounded ==
    \A t \in LiveTasks :
        /\ t.Depth >= 1
        /\ t.Depth <= (IF cfg.MaxDepth > 0 THEN cfg.MaxDepth ELSE 1)

\* a worker holds a directory-like response for a task at the depth bound
C7_Witness ==
    \E w \in DOMAIN wk :
        /\ wk[w].pc = "emit"
        /\ cfg.MaxDepth = 2
        /\ wk[w].task.Depth = 2
        /\ isDirectory(wk[w].result)

----------------------------------------------------------------------------
(* transport: retries and circuit breaker *)

\* the reply is a response with a status below 500
IsFinalResponse(reply) == ~reply.err /\ reply.status < 500

\* the reply is a response with a 5xx status
IsServerError(reply) == ~reply.err /\ reply.status >= 500

\* C8: a transport call issues at most retry_attempts + 1 HTTP attempts, stops
\* at the first response with status < 500 and returns it, and when all
\* retry_attempts + 1 attempts answer 5xx it returns the last response, not an
\* error (a 5xx response is returned only after the last attempt).
C8_RetryPolicy ==
    \A c \in DOMAIN calls :
        LET call == calls[c]
            n == Len(call.seen)
        IN /\ n <= tcfg.retryAttempts + 1
           /\ \A i \in 1..(n - 1) : ~IsFinalResponse(call.seen[i])
           /\ (n >= 1 /\ IsFinalResponse(call.seen[n]))
                => call.pc = "idle" /\ call.ret = "response" /\ call.status = call.seen[n].status
           /\ (n = tcfg.retryAttempts + 1 /\ \A i \in 1..n : IsServerError(call.seen[i]))
                => call.pc = "idle" /\ call.ret = "response" /\ call.status = call.seen[n].status
           /\ call.ret = "response"
                => n >= 1 /\ call.status = call.seen[n].status
                   /\ (call.status < 500 \/ n = tcfg.retryAttempts + 1)

\* with retries = 2 a server that always answers 500 saw exactly three
\* attempts and the call returned the 500 response
C8_Witness ==
    \E c \in DOMAIN calls :
        /\ tcfg.retryAttempts = 2
        /\ Len(calls[c].seen) = 3
        /\ \A i \in 1..3 : calls[c].seen[i] = Reply(500, 0)
        /\ calls[c].pc = "idle"
        /\ calls[c].ret = "response"
        /\ calls[c].status = 500

\* caller c starts a call for host in this step
StartsCall(c, host) ==
    /\ calls[c].pc = "idle"
    /\ calls'[c] # calls[c]
    /\ calls'[c].host = host

\* C9: once 10 failures in a row have been recorded for a host (no success in
\* between, each within the reset timeout of the one before) and no more than
\* 30 s have passed since the last one, is_open(host) is true and the next call
\* for that host fails with a circuit-open error without issuing any HTTP request.
C9_CircuitOpens ==
    [][\A c \in DOMAIN calls, host \in DOMAIN streak :
          (StartsCall(c, host) /\ streak[host].count >= 10 /\ now - streak[host].last <= 30)
            => /\ isOpen(failureCounts, lastFailure, host, now).open
               /\ calls'[c].pc = "idle"
               /\ calls'[c].ret = "circuit_open"
               /\ calls'[c].seen = <<>>]_vars

\* a call was rejected by the open circuit of a host with ten failures in a row
C9_Witness ==
    \E c \in DOMAIN calls :
        /\ calls[c].pc = "idle"
        /\ calls[c].ret = "circuit_open"
        /\ calls[c].seen = <<>>
        /\ streak[calls[c].host].count >= 10
        /\ now - streak[calls[c].host].last <= 30

\* caller c gets a response with status < 500 in this step
GetsFinalResponse(c) ==
    /\ calls[c].pc = "attempt"
    /\ calls'[c].pc = "idle"
    /\ calls'[c].ret = "response"
    /\ calls'[c].status < 500

\* C10: a call that starts more than 30 s after the host's last recorded
\* failure finds the breaker closed: is_open clears the host's failure count
\* and last-failure time and the call goes on to its first attempt; and a
\* response with status < 500 leaves the breaker closed with no entry for the host.
C10_BreakerResets ==
    [][\A c \in DOMAIN calls :
          /\ \A host \in DOMAIN lastFailure :
                (StartsCall(c, host) /\ now - lastFailure[host] > 30)
                  => /\ calls'[c].pc \in {"lookup", "attempt"}
                     /\ host \notin DOMAIN failureCounts'
                     /\ host \notin DOMAIN lastFailure'
          /\ GetsFinalResponse(c)
                  => /\ calls[c].host \notin DOMAIN failureCounts'
                     /\ calls[c].host \notin DOMAIN lastFailure'
                     /\ ~isOpen(failureCounts', lastFailure', calls[c].host, now').open]_vars

\* the circuit of a host had opened (ten failures in a row), more than 30 s
\* passed, and the next call cleared the host's entry and is about to issue
\* its first attempt
C10_Witness ==
    \E c \in DOMAIN calls :
        /\ calls[c].pc = "attempt"
        /\ calls[c].seen = <<>>
        /\ streak[calls[c].host].count >= 10
        /\ now - streak[calls[c].host].last > 30
        /\ calls[c].host \notin DOMAIN failureCounts
        /\ calls[c].host \notin DOMAIN lastFailure

----------------------------------------------------------------------------
(* C11: bypass strategies *)

\* the workers that hold a task whose primary response was a denial (401 or 403)
DeniedWorkers == {w \in DOMAIN wk : wk[w].result.StatusCode \in {401, 403}}

\* the URL attemptBypassStrategies gives the Result of strategy name
BypassURL(originalURL, name) == originalURL \o <<" [BYPASS:", name, "]">>

\* the collected Results that come from a bypass strategy
BypassResults == {i \in 1..Len(results) : results[i].Method = "GET+BYPASS"}

\* C11: on a 401/403 primary response with safe mode off the strategies are tried
\* in catalogue order and stop at the first response with status 200, 301 or 302;
\* at most one bypass Result is sent per denied response, named after that strategy
\* (URL = original URL + " [BYPASS:<strategy>]") and critical; none is sent when no
\* strategy succeeded.  Against the server that answers 200 only to
\* X-Forwarded-For: 127.0.0.1, a completed scan holds exactly one bypass Result, of
\* strategy "headers".
C11_BypassFirstSuccess ==
    /\ \A w \in DeniedWorkers :
         LET t == wk[w].tried
             n == Len(t)
         IN /\ n <= Len(strategyNames)
            /\ \A i \in 1..n : t[i].name = strategyNames[i]
            /\ \A i \in 1..(n - 1) : ~t[i].ok
            /\ wk[w].extra <= 1
            /\ (wk[w].pc = "bypassSend" \/ wk[w].extra = 1) => n > 0 /\ t[n].ok
            /\ wk[w].pc = "bypassSend" =>
                 /\ wk[w].extra = 0
                 /\ wk[w].out.URL = BypassURL(wk[w].result.URL, t[n].name)
                 /\ wk[w].out.StatusCode \in {200, 301, 302}
                 /\ wk[w].out.Critical
            /\ (n > 0 /\ t[n].ok) => wk[w].pc = "bypassSend" \/ wk[w].extra = 1
            /\ n > 0 => ~cfg.SafeMode
    /\ \A r \in Emitted :
         r.Method = "GET+BYPASS" =>
           /\ r.Critical
           /\ r.StatusCode \in {200, 301, 302}
           /\ \E i \in 1..Len(strategyNames) :
                \E t \in 1..Len(cfg.Targets), k \in 1..Len(cfg.Words) :
                  r.URL = BypassURL(TaskURL([TargetURL |-> cfg.Targets[t],
                                             Path |-> cfg.Words[k]]), strategyNames[i])
    /\ (cfg.server = "xff" /\ mainPc = "returned" /\ ~ctxDone) =>
         /\ Cardinality(BypassResults) = 1
         /\ \A i \in BypassResults :
              results[i].URL = BypassURL(TaskURL([TargetURL |-> T1, Path |-> <<"a">>]),
                                         "headers")

\* a bypass Result of the third strategy has been collected: the first two were
\* tried and failed; and the scan of the X-Forwarded-For server has completed
C11_Witness ==
    \/ \E i \in BypassResults :
         results[i].URL = BypassURL(TaskURL([TargetURL |-> T1, Path |-> <<"a">>]),
                                    "path-dotslash")
    \/ cfg.server = "xff" /\ mainPc = "returned" /\ ~ctxDone /\ BypassResults # {}

----------------------------------------------------------------------------
(* C12: safe mode *)

\* the effective URLs of the seed tasks of this run
SeedURLs == {TaskURL(SeedTasks(cfg.Targets)[i]) : i \in 1..Len(SeedTasks(cfg.Targets))}

\* C12: with safe mode on no bypass request and no POST/PUT/DELETE/PATCH request is
\* ever issued: every scan request is a plain GET for a task's effective URL, no
\* worker enters the method-fuzz or bypass loop, and no Result is critical.
C12_SafeModeIssuesOnlyGets ==
    cfg.SafeMode =>
      /\ \A r \in httpLog :
           /\ r.method = "GET"
           /\ r.strategy = ""
           /\ cfg.MaxDepth = 0 => r.url \in SeedURLs
      /\ \A w \in DOMAIN wk :
           /\ wk[w].pc \notin {"fuzz", "fuzzSend", "bypass", "bypassSend"}
           /\ wk[w].tried = <<>>
           /\ wk[w].extra = 0
      /\ \A r \in Emitted : ~r.Critical /\ r.Method = "GET"

\* a safe-mode scan has completed with a denied (401/403) response collected: the
\* response that starts the bypass loop when safe mode is off
C12_Witness ==
    /\ cfg.SafeMode
    /\ mainPc = "returned"
    /\ httpLog # {}
    /\ \E i \in 1..Len(results) : results[i].StatusCode \in {401, 403}

----------------------------------------------------------------------------
(* C13: method fuzzing *)

\* the workers that hold a task whose primary response was 405
FuzzingWorkers == {w \in DOMAIN wk : wk[w].result.StatusCode = 405}

AlternateMethodSet == {alternativeMethods[i] : i \in 1..Len(alternativeMethods)}

\* C13: on a 405 primary response with safe mode off, POST, PUT, DELETE, PATCH are
\* tried in that order; the first response with status 200, 201 or 204 yields exactly
\* one additional Result, with that method and critical, and ends the loop.
C13_MethodFuzzFirstSuccess ==
    /\ \A w \in FuzzingWorkers :
         LET t == wk[w].tried
             n == Len(t)
         IN /\ n <= Len(alternativeMethods)
            /\ \A i \in 1..n : t[i].name = alternativeMethods[i]
            /\ \A i \in 1..(n - 1) : ~t[i].ok
            /\ wk[w].extra <= 1
            /\ (n > 0 /\ t[n].ok) <=> (wk[w].pc = "fuzzSend" \/ wk[w].extra = 1)
            /\ wk[w].pc = "fuzz" => wk[w].idx = n + 1
            /\ wk[w].pc = "fuzzSend" =>
                 /\ wk[w].extra = 0
                 /\ wk[w].out.Method = t[n].name
                 /\ wk[w].out.URL = wk[w].result.URL
                 /\ wk[w].out.StatusCode \in {200, 201, 204}
                 /\ wk[w].out.Critical
            /\ n > 0 => ~cfg.SafeMode
    /\ \A r \in Emitted :
         r.Method \in AlternateMethodSet => r.Critical /\ r.StatusCode \in {200, 201, 204}

\* a PUT Result with status 204 has been collected: POST was tried first and failed
C13_Witness ==
    \E i \in 1..Len(results) :
      /\ results[i].Method = "PUT"
      /\ results[i].StatusCode = 204
      /\ results[i].Critical

----------------------------------------------------------------------------
(* C14: the counters at completion *)

\* the scan ran to completion and was never cancelled
CompletedUncancelled == mainPc = "returned" /\ ~ctxDone

\* C14 as stated: when a scan completes without cancellation,
\* processed + (responses dropped by calibration) + (errored requests) = total.
C14_CountersSumToTotal ==
    CompletedUncancelled => stats.Processed + calDrops + stats.Errors = stats.Total

\* C14 as amended: when a scan completes without cancellation, processed = total;
\* processed is incremented for every request, so the errored requests and the
\* responses dropped by calibration are already part of it.
C14_ProcessedCoversDropsAndErrors ==
    CompletedUncancelled =>
      /\ stats.Processed = stats.Total
      /\ calDrops + stats.Errors <= stats.Processed

\* a scan has completed without cancellation with both an errored request and a
\* response dropped by calibration
C14_Witness ==
    /\ CompletedUncancelled
    /\ stats.Errors > 0
    /\ calDrops > 0
    /\ stats.Processed > calDrops + stats.Errors

----------------------------------------------------------------------------
(* C15: transport errors *)

\* the workers whose request for the task they hold failed (err != nil)
ErroredWorkers == {w \in DOMAIN wk : wk[w].pc = "done" /\ wk[w].result = NoResult}

\* the request of worker w fails in this step
RequestFails(w) ==
    /\ wk[w].pc = "request"
    /\ wk'[w].pc = "done"
    /\ wk'[w].result = NoResult

\* the handling of one transport error inside the worker: errors goes up by exactly
\* one, nothing is sent on results, and the next step of that worker accounts for
\* the task once and returns to the head of the loop
ErrorHandledInWorker ==
    [][\A w \in DOMAIN wk :
         /\ RequestFails(w) =>
              /\ stats'.Errors = stats.Errors + 1
              /\ stats'.Processed = stats.Processed + 1
              /\ resultChan' = resultChan
              /\ taskWg' = taskWg
         /\ (w \in ErroredWorkers /\ wk'[w] # wk[w]) =>
              /\ taskWg' = taskWg - 1
              /\ wk'[w].pc = "recv"
              /\ resultChan' = resultChan
              /\ stats' = stats]_vars

\* C15: a transport error on a task's request never terminates the scan or the
\* worker: no Result is prepared for the task, the task is still accounted for
\* (taskWg counts it until the worker calls Done), and the scan is never left unable
\* to reach completion once an error has been counted.
C15_TransportErrorNeverFatal ==
    /\ \A w \in ErroredWorkers :
         /\ wk[w].out = NoResult
         /\ wk[w].extra = 0
         /\ taskWg >= 1
    /\ stats.Errors > 0 => ~Hung

----------------------------------------------------------------------------
(* C16: the return value of a cancelled scan *)

\* RunContext has returned from a scan that cancellation cut short: during
\* calibration, or with tasks that were never requested
CancelledScanReturned ==
    /\ mainPc = "returned"
    /\ ctxDone
    /\ calIdx <= Len(cfg.Targets) \/ stats.Processed < stats.Total

\* C16: a cancelled scan returns the results collected so far together with the
\* cancellation reason, a non-nil error, whether it is cancelled during calibration
\* or after the workers have started.
C16_CancelledScanReturnsReason ==
    CancelledScanReturned => retErr = "ctx"

----------------------------------------------------------------------------
(* C17: one limiter per host *)

\* every limiter a call holds is the one stored for its host, and the hosts' limiters
\* are pairwise different
OneLimiterPerHost ==
    /\ \A c \in DOMAIN calls :
         calls[c].limiter # 0 =>
           /\ calls[c].host \in DOMAIN limiters
           /\ limiters[calls[c].host] = calls[c].limiter
    /\ \A c, d \in DOMAIN calls :
         (calls[c].limiter # 0 /\ calls[d].limiter # 0) =>
           (calls[c].limiter = calls[d].limiter <=> calls[c].host = calls[d].host)
    /\ \A h, g \in DOMAIN limiters : h # g => limiters[h] # limiters[g]

\* C17: with a positive rate and any interleaving of concurrent limiter lookups, all
\* lookups for one host return the same limiter and the map holds exactly one entry
\* for it, different hosts get different limiters, and an entry is never removed or
\* replaced.
C17_OneLimiterPerHost ==
    [][/\ OneLimiterPerHost'
       /\ \A h \in DOMAIN limiters : h \in DOMAIN limiters' /\ limiters'[h] = limiters[h]
       /\ \A c \in DOMAIN calls :
            (calls[c].pc \in {"lookup", "create"} /\ calls'[c].pc = "limiter") =>
              /\ tcfg.rateLimit > 0
              /\ calls'[c].limiter # 0
              /\ limiters'[calls[c].host] = calls'[c].limiter]_vars

\* two callers both missed the same host under the reader lock and both have passed
\* the writer lock, a third caller holds the limiter of the other host
C17_Witness ==
    /\ tcfg.rateLimit > 0
    /\ \E c, d, e \in DOMAIN calls :
         /\ c # d
         /\ calls[c].host = calls[d].host
         /\ calls[e].host # calls[c].host
         /\ calls[c].pc = "limiter" /\ calls[d].pc = "create"
         /\ calls[e].limiter # 0
         /\ Cardinality(DOMAIN limiters) = 2

----------------------------------------------------------------------------
(* C18: calibration before scanning *)

\* a task has been sent on tasks, or the producer is about to send one
SeedingBegun == prod.pc # "off"

\* C18: every target's calibration entry is in the cache before any task is sent on
\* tasks, so that a worker that filters a response finds the entry of the task's
\* target; and once seeding has begun no step creates or changes a cache entry.
C18_CalibrationPrecedesTasks ==
    [][/\ SeedingBegun' =>
            /\ \A t \in 1..Len(cfg.Targets) : CacheHas(calCache', cfg.Targets[t])
            /\ \A w \in DOMAIN wk' :
                 wk'[w].task # NoTask => CacheHas(calCache', wk'[w].task.TargetURL)
            /\ \A t \in 1..Len(calCache'), u \in 1..Len(calCache') :
                 calCache'[t].target = calCache'[u].target => t = u
       /\ SeedingBegun => calCache' = calCache]_vars

\* a worker is about to filter the response for a task of the second target, whose
\* calibration entry is the second of the cache
C18_Witness ==
    /\ SeedingBegun
    /\ Len(calCache) = 2
    /\ \E w \in DOMAIN wk :
         /\ wk[w].pc = "request"
         /\ wk[w].task.TargetURL = T2
         /\ calCache[2].target = T2

----------------------------------------------------------------------------
(* C19: MatchesSignature *)

\* the call with these arguments has returned
Returned(call) == detIn = call /\ detOut.fn = call.fn

MatchCall(statusCode, size, signatures) ==
    [fn |-> "MatchesSignature", statusCode |-> statusCode, size |-> size,
     signatures |-> signatures]

\* C19: MatchesSignature(status, size, signatures) is true iff some signature has
\* the same status, a non-zero size and 20 * |size - sig.size| < sig.size; an empty
\* list matches nothing and a signature of size 0 never matches; against the
\* baseline (404, 100), (404, 102) matches and (404, 200) and (200, 100) do not.
C19_MatchesSignatureWithinFivePercent ==
    detOut.fn = "MatchesSignature" =>
      LET sigs == detIn.signatures
          base == <<[StatusCode |-> 404, Size |-> 100]>>
      IN /\ detOut.matches <=>
              \E i \in 1..Len(sigs) :
                /\ sigs[i].StatusCode = detIn.statusCode
                /\ sigs[i].Size # 0
                /\ 20 * (IF detIn.size >= sigs[i].Size THEN detIn.size - sigs[i].Size
                         ELSE sigs[i].Size - detIn.size) < sigs[i].Size
         /\ sigs = <<>> => ~detOut.matches
         /\ (\A i \in 1..Len(sigs) : sigs[i].Size = 0) => ~detOut.matches
         /\ Returned(MatchCall(404, 102, base)) => detOut.matches
         /\ Returned(MatchCall(404, 200, base)) => ~detOut.matches
         /\ Returned(MatchCall(200, 100, base)) => ~detOut.matches
         /\ Returned(MatchCall(404, 105, base)) => ~detOut.matches
         /\ Returned(MatchCall(404, 96, base)) => detOut.matches

\* the call for a (404, 104) response returned true on the second signature of
\* <<(404, 0), (404, 100)>>: the zero-size signature was skipped
C19_Witness ==
    /\ Returned(MatchCall(404, 104, <<[StatusCode |-> 404, Size |-> 0],
                                      [StatusCode |-> 404, Size |-> 100]>>))
    /\ detOut.matches

----------------------------------------------------------------------------
(* C20: DetectSecrets *)

\* C20: for every input, DetectSecrets returns only non-empty pattern names and each
\* name at most once, however often the pattern occurs in the input.
C20_SecretNamesUniqueAndNonEmpty ==
    detOut.fn = "DetectSecrets" =>
      LET names == detOut.names
      IN /\ \A i \in 1..Len(names) : names[i] # ""
         /\ \A i, j \in 1..Len(names) : names[i] = names[j] => i = j
         /\ \A i \in 1..Len(names) :
              \E k \in 1..Len(Patterns) :
                Patterns[k].Name = names[i] /\ Occurrences(detIn.content, k) # {}

\* the content held the same pattern three times and one name was returned
C20_Witness ==
    /\ detOut.fn = "DetectSecrets"
    /\ Cardinality(Occurrences(detIn.content, 1)) = 3
    /\ detOut.names = <<"AWS Access Key">>

----------------------------------------------------------------------------
(* C21, C22: the JSON writers *)

\* the files a writer wrote
Written(fn) == {i \in DOMAIN files : files[i].fn = fn}

\* C21: two calls of SaveJSONReport with identical results, targets and run id write
\* identical files, whenever the two calls are made.
C21_ReportsByteIdentical ==
    \A i, j \in Written("SaveJSONReport") :
        files[i].args = files[j].args => files[i].content = files[j].content

\* the written results are in ascending order of URL, then of status
IsOrdered(rs) ==
    \A i, j \in 1..Len(rs) :
        i < j => \/ StringLess(rs[i].URL, rs[j].URL)
                 \/ rs[i].URL = rs[j].URL /\ rs[i].StatusCode <= rs[j].StatusCode

\* two lists hold the same results, each as often
SameResults(a, b) == a \in Reorderings(b)

\* C22: what SaveJSON writes is ordered by URL, then status, and is the same for every
\* order in which the same results are handed to it.
C22_SavedOrderIndependentOfInput ==
    \A i, j \in Written("SaveJSON") :
        /\ IsOrdered(files[i].content)
        /\ SameResults(files[i].args.results, files[j].args.results)
             => files[i].content = files[j].content

----------------------------------------------------------------------------
(* C23: the two channels of the recursion feedback *)

\* workers that wait for space in newTaskChan
BlockedOnNewTasks ==
    {w \in DOMAIN wk : wk[w].pc = "push" /\ Len(newTaskChan) >= Capacity /\ ~newTaskClosed}

\* the recursion consumer waits for space in taskChan
ConsumerBlockedOnTasks ==
    cons.pc = "send" /\ Len(taskChan) >= Capacity /\ ~taskClosed

\* C23: with recursion enabled, no worker is ever blocked sending on a full new_tasks
\* channel while the recursion consumer is blocked sending on a full tasks channel.
C23_NoWorkerWaitsWhileTasksFull ==
    (cfg.MaxDepth > 0 /\ ~ctxDone) => ~(BlockedOnNewTasks # {} /\ ConsumerBlockedOnTasks)

----------------------------------------------------------------------------
(* C24: the outstanding-task counter and the closing of tasks *)

\* a step sends a task on taskChan or a new task on newTaskChan
SendsTask ==
    \/ Len(taskChan') > Len(taskChan)
    \/ Len(newTaskChan') > Len(newTaskChan)

\* C24: the counter is incremented for a task before the task is sent (the send leaves
\* the counter alone and the counter already exceeds the tasks queued or held), and a
\* holder increments for a follow-up before it decrements for its own task; so while a
\* task is queued, a worker holds one or the consumer is in a fan-out, the counter is
\* at least the number of those tasks, the closer still waits and tasks is open.
C24_CounterCoversEveryTask ==
    [][/\ SendsTask => (taskWg' = taskWg /\ taskWg > InFlight)
       /\ (InFlight > 0 => (taskWg >= InFlight /\ closer = "wait" /\ ~taskClosed))'
      ]_vars

\* a worker has incremented for a new task it has not sent yet, the consumer is in the
\* middle of a fan-out, a generated task is queued, and tasks is still open
C24_Witness ==
    /\ PushingWorkers # {}
    /\ cons.pc = "send" /\ cons.idx > 1
    /\ taskChan # <<>>
    /\ taskWg >= 4
    /\ closer = "wait" /\ ~taskClosed

----------------------------------------------------------------------------
(* C25: the order of the shutdown *)

AllWorkersExited == \A w \in DOMAIN wk : wk[w].pc = "exited"

ClosesTasks == taskClosed' /\ ~taskClosed

ClosesResults == resultClosed' /\ ~resultClosed

ClosesNewTasks == newTaskClosed' /\ ~newTaskClosed

\* RunContext returns from wg.Wait(), the end of a scan that got past calibration
ReturnsFromScan == mainPc = "wait" /\ mainPc' = "returned"

\* tasks is closed only at counter zero, and RunContext returns only after the three
\* channels (new_tasks when it is in use) were closed and the results were collected
ClosesAtZeroAndReturnsLast ==
    /\ ClosesTasks => taskWg = 0
    /\ ReturnsFromScan =>
         /\ taskClosed /\ resultClosed /\ (cfg.MaxDepth > 0 => newTaskClosed)
         /\ AllWorkersExited
         /\ resultChan = <<>>
         /\ retErr' = "nil" /\ results' = results /\ stats' = stats

\* C25 as stated: tasks is closed only when the counter is zero; after all workers
\* have exited new_tasks (if opened) is closed, then results, in that order; only
\* then RunContext returns.
C25_ClosesNewTasksThenResults ==
    [][/\ ClosesAtZeroAndReturnsLast
       /\ ClosesNewTasks => (taskClosed /\ AllWorkersExited /\ ~resultClosed)
       /\ ClosesResults => (taskClosed /\ AllWorkersExited
                            /\ (cfg.MaxDepth > 0 => newTaskClosed))
      ]_vars

\* C25, amended: after all workers have exited results is closed, then new_tasks
\* (if opened), in that order; the rest as stated.
C25_ClosesResultsThenNewTasks ==
    [][/\ ClosesAtZeroAndReturnsLast
       /\ ClosesResults => (taskClosed /\ AllWorkersExited /\ ~newTaskClosed)
       /\ ClosesNewTasks => (taskClosed /\ AllWorkersExited /\ resultClosed)
      ]_vars

\* a scan with recursion on and two workers returned its results after closing the
\* three channels
C25_Witness ==
    /\ mainPc = "returned" /\ retErr = "nil"
    /\ cfg.MaxDepth > 0 /\ cfg.Threads > 1
    /\ taskClosed /\ resultClosed /\ newTaskClosed
    /\ BagToSet(fanouts) # {}
    /\ results # <<>>

----------------------------------------------------------------------------
(* C26: closed channels *)

\* nothing can send on taskChan any more: the producer is done, the consumer is idle
\* with nothing to fan out, and no worker holds a task it could turn into a new task
NoSenderOnTasks ==
    /\ prod.pc \in {"off", "exited"}
    /\ cons.pc \in {"off", "recv", "exited"}
    /\ newTaskChan = <<>>
    /\ HoldingWorkers = {}

\* C26: no goroutine sends on a closed channel and no channel is closed twice; tasks
\* is closed only when neither the producer nor the consumer can still send on it,
\* and results and new_tasks only after every worker exited; with or without
\* cancellation.
C26_NoSendOnClosedChannel ==
    /\ ~panicked
    /\ taskClosed => NoSenderOnTasks
    /\ resultClosed => AllWorkersExited
    /\ newTaskClosed => AllWorkersExited

\* a cancelled scan with recursion on that closed its three channels and returned,
\* with some of its tasks dropped unprocessed
C26_Witness ==
    /\ mainPc = "returned"
    /\ ctxDone
    /\ cfg.MaxDepth > 0
    /\ taskClosed /\ resultClosed /\ newTaskClosed
    /\ stats.Processed < stats.Total
    /\ ~panicked

----------------------------------------------------------------------------
(* C27: the size of a fan-out *)

\* |words| x (1 + |extensions|)
FanOutSize == Len(cfg.Words) * (1 + Len(cfg.Extensions))

InFanOut == cons.pc \in {"add", "send", "skip"}

\* the recursion consumer accepts the new task it holds
AcceptsNewTask == cons.pc = "check" /\ cons'.pc \in {"add", "skip"}

\* the recursion consumer drops the new task it holds
DropsNewTask == cons.pc = "check" /\ cons'.pc = "recv"

\* the recursion consumer sends a generated task
SendsGenerated == cons.pc = "send" /\ cons'.pc # "send"

\* the recursion consumer reaches skipExtensions
EndsFanOut == cons.pc \in {"check", "send"} /\ cons'.pc = "skip"

\* C27: without cancellation, a directory is accepted only on its first occurrence
\* and with depth <= max_depth; each task generated for it is sent on tasks after one
\* increment of the counter, carries the new task's target and depth, and adds one to
\* the stats total; the fan-out ends after exactly |words| x (1 + |extensions|) of
\* them, so counter and total grow by that number. A dropped new task sends nothing,
\* adds nothing to the total, and takes from the counter only its own unit.
C27_FanOutSize ==
    [][~ctxDone' =>
        /\ AcceptsNewTask =>
             /\ <<cons.newTask.TargetURL, cons.newTask.Path>> \notin scannedDirs
             /\ cons.newTask.Depth <= cfg.MaxDepth
             /\ taskChan' = taskChan /\ stats' = stats /\ taskWg' = taskWg
        /\ (cons.pc # "send" /\ cons'.pc = "send") => (cons.pc = "add" /\ taskWg' = taskWg + 1)
        /\ SendsGenerated =>
             /\ Len(taskChan') = Len(taskChan) + 1
             /\ taskChan'[Len(taskChan')].TargetURL = cons.newTask.TargetURL
             /\ taskChan'[Len(taskChan')].Depth = cons.newTask.Depth
             /\ stats'.Total = stats.Total + 1
             /\ taskWg' = taskWg
        /\ EndsFanOut => cons'.idx - 1 = FanOutSize
        /\ DropsNewTask =>
             /\ taskChan' = taskChan /\ stats' = stats /\ taskWg' = taskWg - 1
        /\ (stats.Total = initialTaskCount
              + FanOutSize * (BagCardinality(fanouts) - (IF InFanOut THEN 1 ELSE 0))
              + (IF InFanOut THEN cons.idx - 1 ELSE 0))'
      ]_vars

\* with one word and one extension the consumer has completed the fan-outs of two
\* directories, two tasks each, and the scan returned; the total is 2 + 4
C27_Witness ==
    /\ ~ctxDone
    /\ Len(cfg.Extensions) = 1
    /\ BagCardinality(fanouts) = 2
    /\ cons.pc = "exited"
    /\ stats.Total = 6
    /\ mainPc = "returned"

----------------------------------------------------------------------------
(* C28, C29, C30: the bookkeeping of the circuit breaker *)

\* caller c issues an HTTP attempt in this step; its outcome is the last of seen'
IssuesAttempt(c) ==
    /\ calls[c].pc = "attempt"
    /\ Len(calls'[c].seen) = Len(calls[c].seen) + 1

LastSeen(call) == call.seen[Len(call.seen)]

FailureCount(counts, host) == MapGet(counts, host, 0)

\* the step records one failure for host at the current time
RecordsFailure(host) ==
    /\ FailureCount(failureCounts', host) = FailureCount(failureCounts, host) + 1
    /\ host \in DOMAIN lastFailure' /\ lastFailure'[host] = now

\* the step leaves the breaker as it is
BreakerUnchanged == failureCounts' = failureCounts /\ lastFailure' = lastFailure

\* C28: in a transport call every attempt answered with a status >= 500 records one
\* failure for the host; a transport error records one only on the last attempt; a
\* response with a status < 500 records a success, which removes the host's entry,
\* so that the call returns with the host's failure count at 0 whatever its earlier
\* attempts recorded.
C28_AttemptBookkeeping ==
    [][\A c \in DOMAIN calls :
          IssuesAttempt(c) =>
            LET host == calls[c].host
                outcome == LastSeen(calls'[c])
            IN /\ IsServerError(outcome) => RecordsFailure(host)
               /\ (outcome.err /\ calls[c].attempt = tcfg.retryAttempts) => RecordsFailure(host)
               /\ (outcome.err /\ calls[c].attempt # tcfg.retryAttempts) => BreakerUnchanged
               /\ IsFinalResponse(outcome) =>
                    /\ host \notin DOMAIN failureCounts'
                    /\ host \notin DOMAIN lastFailure'
                    /\ FailureCount(failureCounts', host) = 0
                    /\ calls'[c].pc = "idle" /\ calls'[c].ret = "response"]_vars

\* a call got a 5xx response, then a transport error, then a response with a status
\* < 500, and returned with no failure entry left for its host
C28_Witness ==
    \E c \in DOMAIN calls :
        /\ Len(calls[c].seen) = 3
        /\ IsServerError(calls[c].seen[1])
        /\ calls[c].seen[2].err
        /\ IsFinalResponse(calls[c].seen[3])
        /\ calls[c].pc = "idle" /\ calls[c].ret = "response"
        /\ calls[c].host \notin DOMAIN failureCounts

\* the call of caller c is past the circuit-breaker check
InProgress(c) == calls[c].pc \in {"lookup", "create", "limiter", "backoff", "attempt"}

\* C29: the circuit breaker is consulted once per call, before the rate-limiter wait
\* and the first attempt: only a call that is starting is rejected as circuit-open,
\* and the rejection changes neither the failure counts nor the last-failure times;
\* a call in progress is never rejected and, unless cancelled, issues its next
\* attempt even when the host's failure count has reached the threshold.
C29_BreakerConsultedOncePerCall ==
    [][\A c \in DOMAIN calls :
          /\ (calls'[c].ret = "circuit_open" /\ calls'[c] # calls[c]) =>
                /\ calls[c].pc = "idle"
                /\ isOpen(failureCounts, lastFailure, calls'[c].host, now).open
                /\ BreakerUnchanged
                /\ calls'[c].seen = <<>> /\ calls'[c].limiter = 0
          /\ (InProgress(c) /\ calls'[c] # calls[c]) =>
                /\ calls'[c].ret # "circuit_open"
                /\ (calls[c].pc = "attempt" /\ ~reqCtxDone) => IssuesAttempt(c)
          /\ (calls[c].pc = "idle" /\ InProgress(c)') =>
                ~isOpen(failureCounts, lastFailure, calls'[c].host, now).open]_vars

\* a call got through all its attempts although the failure count of its host reached
\* the threshold on the way: the count is past the threshold when it returns
C29_Witness ==
    \E c \in DOMAIN calls :
        /\ tcfg.retryAttempts > 0
        /\ Len(calls[c].seen) = tcfg.retryAttempts + 1
        /\ calls[c].pc = "idle" /\ calls[c].ret = "response"
        /\ FailureCount(failureCounts, calls[c].host) > threshold

\* C30: in every state of the circuit breaker a host has a failure count if and only
\* if it has a last-failure time, and every stored failure count is at least 1.
C30_BreakerMapsAgree ==
    /\ DOMAIN failureCounts = DOMAIN lastFailure
    /\ \A host \in DOMAIN failureCounts : failureCounts[host] >= 1

\* one host has two failures on record, the other had one and was cleared by a
\* success, while time has passed
C30_Witness ==
    /\ tcfg.Hosts = {"h", "g"}
    /\ DOMAIN failureCounts = {"h"}
    /\ failureCounts["h"] = 2
    /\ streak["g"] = NoStreak
    /\ \E c \in DOMAIN calls : calls[c].host = "g" /\ calls[c].ret = "response"
    /\ now > 0

----------------------------------------------------------------------------
(* C31: the per-host rate limiter *)

\* C31: with a rate > 0 a call has acquired exactly one token from the limiter of its
\* host when it issues its first attempt, and acquires no further token for its
\* retries; with a rate <= 0 no limiter is created, none is handed to a call and no
\* token is acquired.
C31_OneTokenPerCall ==
    \A c \in DOMAIN calls :
        LET call == calls[c]
        IN /\ tcfg.rateLimit > 0 =>
                /\ call.tokens <= 1
                /\ (call.pc \in {"attempt", "backoff"} \/ call.seen # <<>>) =>
                      /\ call.tokens = 1
                      /\ call.host \in DOMAIN limiters
                      /\ call.limiter = limiters[call.host]
                /\ call.pc \in {"lookup", "create", "limiter"} =>
                      (call.tokens = 0 /\ call.seen = <<>>)
           /\ tcfg.rateLimit <= 0 =>
                /\ limiters = <<>>
                /\ call.limiter = 0 /\ call.tokens = 0
                /\ call.pc \notin {"lookup", "create", "limiter"}

\* with a rate > 0 a call issued three attempts on one token
C31_Witness ==
    \E c \in DOMAIN calls :
        /\ tcfg.rateLimit > 0
        /\ Len(calls[c].seen) = 3
        /\ calls[c].tokens = 1

\* with a negative rate a call issued a retry and no limiter exists
C31_WitnessNoLimiter ==
    \E c \in DOMAIN calls :
        /\ tcfg.rateLimit < 0
        /\ Len(calls[c].seen) = 2
        /\ limiters = <<>>

----------------------------------------------------------------------------
(* C32: the backoff bound *)

\* min(2^(n-1) s, 30 s): 2^5 s is the first power of two past 30 s
BackoffCeiling(n) ==
    IF n - 1 >= 5 THEN ceiling ELSE Multiply(Second, Word(2^(n - 1)))

\* C32: the bound jitter computes for the backoff before retry attempt n,
\* 1 <= n <= retry_attempts, is min(2^(n-1) s, 30 s): positive and at most 30 s, so
\* the backoff is drawn and the call goes on, whatever retry_attempts is.
C32_BackoffBoundWithinCeiling ==
    \A c \in DOMAIN calls :
        /\ calls[c].pc # "panicked"
        /\ calls[c].pc = "backoff" =>
              LET bound == jitterBase(calls[c].attempt - 1)
              IN /\ ~Int63nPanics(bound)
                 /\ ~Greater(bound, ceiling)
                 /\ bound = BackoffCeiling(calls[c].attempt)

----------------------------------------------------------------------------
(* C33: processed and total *)

\* seed tasks the producer has sent
SeedsSent == IF prod.pc = "off" THEN 0 ELSE prod.idx - 1

\* workers that dequeued a task and have not issued its request yet
AwaitingRequest == {w \in DOMAIN wk : wk[w].pc \in {"check", "agent", "crashed", "request"}}

\* tasks the workers have dequeued: the tasks sent on taskChan that are no longer in it
Dequeued == SeedsSent + (stats.Total - initialTaskCount) - Len(taskChan)

\* C33: without cancellation processed is incremented exactly once per dequeued task,
\* by the step that issues its request, whatever the request yields; so when the scan
\* completes processed equals total, and both equal the seed tasks plus the
\* recursion-generated tasks sent on tasks.
C33_ProcessedEqualsTotal ==
    [][~ctxDone' =>
        /\ stats'.Processed # stats.Processed =>
             /\ stats'.Processed = stats.Processed + 1
             /\ \E w \in DOMAIN wk : wk[w].pc = "request" /\ wk'[w].pc # "request"
        /\ (\E w \in DOMAIN wk : wk[w].pc = "request" /\ wk'[w].pc # "request") =>
             stats'.Processed = stats.Processed + 1
        /\ (stats.Processed = Dequeued - Cardinality(AwaitingRequest))'
        /\ mainPc' = "returned" =>
             /\ stats'.Processed = stats'.Total
             /\ stats'.Total = initialTaskCount + FanOutSize * BagCardinality(fanouts')
      ]_vars

\* a scan with two workers and recursion completed without cancellation: processed
\* and total agree and count the generated tasks, a duplicate directory was dropped
C33_Witness ==
    /\ CompletedUncancelled
    /\ cfg.Threads = 2
    /\ dupDrops > 0
    /\ stats.Processed = stats.Total
    /\ stats.Total > initialTaskCount

\* a scan completed without cancellation after a failed request and a calibration drop
C33_WitnessErrors ==
    /\ CompletedUncancelled
    /\ stats.Errors > 0 /\ calDrops > 0
    /\ stats.Processed = stats.Total

----------------------------------------------------------------------------
(* C34: found and the collected Results *)

\* the Results of a sequence that are not bypass Results
NonBypass(rs) == {i \in 1..Len(rs) : rs[i].Method # "GET+BYPASS"}

\* workers that have incremented found for a Result they have not sent yet: a
\* successful method-fuzz waiting on results, or an interesting primary response
\* on its way to the final send
FoundNotSent ==
    {w \in DOMAIN wk : wk[w].pc \in {"fuzzSend", "bypass", "bypassSend", "recurse", "push", "emit"}}

\* C34: found counts exactly the Results that are not bypass Results: every
\* increment of found is followed by one send of a primary or method-fuzz Result, a
\* bypass Result is sent without an increment, and when RunContext has returned
\* from the scan found equals the number of collected non-bypass Results.
C34_FoundCountsNonBypassResults ==
    /\ stats.Found = Cardinality(NonBypass(results)) + Cardinality(NonBypass(resultChan))
                        + Cardinality(FoundNotSent)
    /\ (mainPc = "returned" /\ collector = "exited") =>
          stats.Found = Len(results) - Cardinality(BypassResults)

\* a completed scan that collected a primary Result and a bypass Result, counted once
C34_Witness ==
    /\ mainPc = "returned" /\ collector = "exited"
    /\ Cardinality(BypassResults) = 1
    /\ Len(results) = 2
    /\ stats.Found = 1

\* a completed scan that collected a method-fuzz Result for a 405, counted once
C34_WitnessFuzz ==
    /\ mainPc = "returned" /\ collector = "exited"
    /\ \E i \in 1..Len(results) : results[i].Method \notin {"GET", "GET+BYPASS"}
    /\ stats.Found = Len(results)

----------------------------------------------------------------------------
(* C35: sent Results and the returned list *)

\* worker w completes a send on results in this step
SendsResult(w) ==
    /\ wk[w].pc \in {"fuzzSend", "bypassSend", "emit"}
    /\ wk'[w].pc # wk[w].pc

\* the Result that send carries
SentResult(w) == IF wk[w].pc = "emit" THEN wk[w].result ELSE wk[w].out

\* the Results sent so far, in the order of their sends: collected, then queued
SentSoFar == results \o resultChan

\* C35: every Result a worker sends on results appears exactly once in the list
\* RunContext returns: a send appends that Result to the sent sequence, the collector
\* moves Results from the channel to the list without changing that sequence, no
\* other step touches it, and RunContext returns from the scan only when results is
\* closed and drained and the collector has ended.
C35_SentResultsCollectedOnce ==
    [][/\ \A w \in DOMAIN wk :
            SendsResult(w) => SentSoFar' = Append(SentSoFar, SentResult(w))
       /\ (\A w \in DOMAIN wk : ~SendsResult(w)) => SentSoFar' = SentSoFar
       /\ Len(results') >= Len(results)
       /\ ReturnsFromScan =>
            /\ resultClosed /\ resultChan = <<>> /\ collector = "exited"
            /\ results' = SentSoFar
      ]_vars

\* a completed scan with two workers whose three sent Results were all collected
C35_Witness ==
    /\ mainPc = "returned" /\ collector = "exited"
    /\ cfg.Threads = 2
    /\ Len(results) = 3
    /\ resultChan = <<>>

----------------------------------------------------------------------------
(* C36: a worker that sees the cancellation *)

\* worker w is at the top of its loop: waiting for a task or holding one it has not
\* started on
AtLoopTop(w) == wk[w].pc \in {"recv", "check"}

\* worker w takes a step
WorkerSteps(w) == wk'[w] # wk[w]

\* C36: once the cancellation is visible to a worker at the top of its loop, the worker
\* issues no request for the task it holds or for any later one: for each task it
\* decrements the outstanding-task counter once, leaves the statistics, the request
\* log and results unchanged, and goes back to receive, until tasks is closed and
\* drained and it leaves the loop.
C36_CancelledWorkerOnlyDrains ==
    [][/\ ctxDone => ctxDone'
       /\ \A w \in DOMAIN wk :
            (ctxDone /\ AtLoopTop(w) /\ WorkerSteps(w)) =>
               /\ stats' = stats /\ httpLog' = httpLog
               /\ resultChan' = resultChan /\ newTaskChan' = newTaskChan
               /\ wk[w].pc = "check" =>
                     /\ taskWg' = taskWg - 1
                     /\ wk'[w].pc = "recv" /\ wk'[w].task = NoTask
               /\ wk[w].pc = "recv" =>
                     /\ taskWg' = taskWg
                     /\ \/ wk'[w].pc = "check" /\ taskChan # <<>>
                              /\ wk'[w].task = Head(taskChan) /\ taskChan' = Tail(taskChan)
                        \/ wk'[w].pc = "exited" /\ taskClosed /\ taskChan = <<>>
      ]_vars

\* a cancelled scan whose workers have all left the loop after dequeuing tasks they
\* never requested
C36_Witness ==
    /\ ctxDone
    /\ AllWorkersExited
    /\ Dequeued > stats.Processed
    /\ taskWg = 0

----------------------------------------------------------------------------
(* C37: the random-number generators *)

\* C37: the generators used for user-agent selection and for retry jitter are only
\* used under their mutex: no two goroutines are ever inside a call on the same
\* generator at the same time, so no worker is inside rng.Intn on the generator the
\* workers share while another worker is, and no call on it ends in a panic.
C37_GeneratorCallsExclusive ==
    /\ Cardinality(InsideIntn) <= 1
    /\ ~Crashed

----------------------------------------------------------------------------
(* C38: locks, HTTP calls and channel sends *)

\* goroutines that are at an HTTP call or at a channel send
AtCallOrSend == {g \in DOMAIN lockSt : Instruction(g).op \in {"Request", "Send"}}

\* goroutines that hold a lock
Holders == {g \in DOMAIN lockSt : lockSt[g].held # {}}

\* C38: no lock is held across an HTTP call or a channel send: a goroutine that is at
\* an HTTP call or at a channel send holds no lock, be it the dedup mutex, the results
\* mutex, the limiter map's lock, the circuit breaker's mutex, the calibration
\* cache's lock or a generator's mutex.
C38_NoLockAcrossCallOrSend ==
    \A g \in AtCallOrSend : lockSt[g].held = {}

\* the consumer is at a fan-out send after its dedup section, a worker is at an HTTP
\* call after the breaker and limiter sections, and the other worker holds a lock
C38_Witness ==
    /\ lockSt # <<>>
    /\ Instruction("consumer").op = "Send"
    /\ Instruction("worker1").op = "Request"
    /\ "worker2" \in Holders

----------------------------------------------------------------------------
(* C39: the path-double-slash strategy *)

\* the requests the path-double-slash strategy has issued
DoubleSlashRequests == {r \in httpLog : r.strategy = "path-double-slash"}

\* C39: the path-double-slash strategy requests the original URL with the leading "/"
\* of its path doubled: the path of the URL it requests begins with "//", and the
\* URL differs from the original, denied one.
C39_DoubleSlashRequestsDoubledPath ==
    \A r \in DoubleSlashRequests :
        /\ HasPrefix(extractPath(pathBypass(r.strategy, r.url)), <<"/", "/">>)
        /\ pathBypass(r.strategy, r.url) # r.url

====
